---- MODULE Spec2Model ----
(***************************************************************************)
(* A model of omnimap, a single-node out-of-core MapReduce engine.         *)
(*                                                                         *)
(* Text is modelled as sequences of one-character strings, so that byte    *)
(* lengths (String::len), line splitting (read_line, split) and the JSON   *)
(* line format of the part files are computed, not assumed.                *)
(*                                                                         *)
(* Specifications:                                                         *)
(*   SpecIndex  - combiner, Index::merge, MapContainer and the part files, *)
(*                driven by arbitrary MapResult batches;                   *)
(*   SpecPipe   - mapper, worker pool, indexer and IndexGuard interleaved; *)
(*   SpecReduce - consumer, reducer, Tracker, ResultTable and printer.     *)
(***************************************************************************)
EXTENDS Integers, Sequences, FiniteSets, TLC

----------------------------------------------------------------------------
(* Bounds of the model *)

\* number of MapResult batches (map tasks) the indexer receives in SpecIndex
MaxBatches == 3
\* number of MapResults in one batch in SpecIndex
MaxBatchLen == 2
\* number of MapResults of all batches together in SpecIndex
MaxEmits == 4

----------------------------------------------------------------------------
(* Text helpers *)

RECURSIVE Concat(_)
Concat(ss) == IF ss = <<>> THEN <<>> ELSE Head(ss) \o Concat(Tail(ss))

RECURSIVE SumSeq(_)
SumSeq(ns) == IF ns = <<>> THEN 0 ELSE Head(ns) + SumSeq(Tail(ns))

\* the byte lengths of a list of strings, summed
TotalLen(vs) == SumSeq([i \in 1..Len(vs) |-> Len(vs[i])])

\* number of occurrences of v in the list vs
RECURSIVE Count(_, _)
Count(v, vs) ==
    IF vs = <<>> THEN 0
    ELSE (IF Head(vs) = v THEN 1 ELSE 0) + Count(v, Tail(vs))

\* BufRead::read_line applied until it returns 0: the lines of a byte
\* sequence, each with its terminating "\n" (the last one may lack it)
RECURSIVE ReadLinesFrom(_, _, _)
ReadLinesFrom(bytes, i, cur) ==
    IF i > Len(bytes)
    THEN (IF cur = <<>> THEN <<>> ELSE <<cur>>)
    ELSE IF bytes[i] = "\n"
         THEN <<Append(cur, "\n")>> \o ReadLinesFrom(bytes, i + 1, <<>>)
         ELSE ReadLinesFrom(bytes, i + 1, Append(cur, bytes[i]))

read_lines(bytes) == ReadLinesFrom(bytes, 1, <<>>)

----------------------------------------------------------------------------
(* json_line.rs *)

\* serde_json's escaping of one character inside a JSON string
JsonEscape(c) ==
    CASE c = "\"" -> <<"\\", "\"">>
      [] c = "\\" -> <<"\\", "\\">>
      [] c = "\n" -> <<"\\", "n">>
      [] c = "\t" -> <<"\\", "t">>
      [] OTHER    -> <<c>>

JsonString(s) ==
    <<"\"">> \o Concat([i \in 1..Len(s) |-> JsonEscape(s[i])]) \o <<"\"">>

RECURSIVE JoinComma(_)
JoinComma(ss) ==
    IF ss = <<>> THEN <<>>
    ELSE IF Len(ss) = 1 THEN Head(ss)
    ELSE Head(ss) \o <<",">> \o JoinComma(Tail(ss))

\* to_json_line: the JSON array of the values followed by a line feed
to_json_line(values) ==
    <<"[">> \o JoinComma([i \in 1..Len(values) |-> JsonString(values[i])])
            \o <<"]", "\n">>

JsonError == [ok |-> FALSE, values |-> <<>>]

JsonUnescape(c) ==
    CASE c = "n" -> "\n"
      [] c = "t" -> "\t"
      [] c = "\"" -> "\""
      [] c = "\\" -> "\\"
      [] OTHER   -> "invalid escape"

\* serde_json::from_str::<Vec<String>>: a parser of a JSON array of strings
RECURSIVE JsonParse(_, _, _, _, _)
JsonParse(s, i, mode, cur, acc) ==
    IF i > Len(s)
    THEN (IF mode = "end" THEN [ok |-> TRUE, values |-> acc] ELSE JsonError)
    ELSE LET c == s[i] IN
      CASE mode = "start" ->
             IF c = "[" THEN JsonParse(s, i + 1, "first", <<>>, acc)
             ELSE JsonError
        [] mode = "first" ->
             IF c = "\"" THEN JsonParse(s, i + 1, "str", <<>>, acc)
             ELSE IF c = "]" THEN JsonParse(s, i + 1, "end", <<>>, acc)
             ELSE JsonError
        [] mode = "elem" ->
             IF c = "\"" THEN JsonParse(s, i + 1, "str", <<>>, acc)
             ELSE JsonError
        [] mode = "str" ->
             IF c = "\\" THEN JsonParse(s, i + 1, "esc", cur, acc)
             ELSE IF c = "\""
                  THEN JsonParse(s, i + 1, "after", <<>>, Append(acc, cur))
             ELSE IF c \in {"\n", "\t"} THEN JsonError
             ELSE JsonParse(s, i + 1, "str", Append(cur, c), acc)
        [] mode = "esc" ->
             IF JsonUnescape(c) = "invalid escape" THEN JsonError
             ELSE JsonParse(s, i + 1, "str", Append(cur, JsonUnescape(c)), acc)
        [] mode = "after" ->
             IF c = "," THEN JsonParse(s, i + 1, "elem", <<>>, acc)
             ELSE IF c = "]" THEN JsonParse(s, i + 1, "end", <<>>, acc)
             ELSE JsonError
        [] OTHER ->
             IF c = "\n" THEN JsonParse(s, i + 1, "end", <<>>, acc)
             ELSE JsonError

\* from_json: ok = FALSE is the "Could not parse json" error
from_json(line) == JsonParse(line, 1, "start", <<>>, <<>>)

----------------------------------------------------------------------------
(* map_container.rs *)

\* base64::encode of the keys of the model
Base64(key) ==
    CASE key = <<"a">>  -> <<"Y", "Q", "=", "=">>
      [] key = <<"b">>  -> <<"Y", "g", "=", "=">>
      [] key = <<"\n">> -> <<"C", "g", "=", "=">>
      [] OTHER          -> <<"?">> \o key

new(key) ==
    [values             |-> <<>>,
     buffered_size      |-> 0,
     encoded_key        |-> Base64(key),
     last_part_size     |-> 0,
     last_part_sequence |-> 0,
     lines_per_part     |-> <<>>,
     total_parts        |-> 0]

\* add_value with the size assigned instead of added
add_value_assigning(c, value) ==
    [c EXCEPT !.buffered_size = Len(value),
              !.values = Append(@, value)]

add_value(c, value) ==
    [c EXCEPT !.buffered_size = @ + Len(value),
              !.values = Append(@, value)]

\* an add_values that appends the values without counting their bytes
add_values_uncounted(c, values) == [c EXCEPT !.values = @ \o values]

RECURSIVE add_values(_, _)
add_values(c, values) ==
    IF values = <<>> THEN c
    ELSE add_values(add_value(c, Head(values)), Tail(values))

transfer_data(c, other) ==
    add_values([c EXCEPT !.last_part_sequence = other.last_part_sequence,
                         !.last_part_size = other.last_part_size,
                         !.lines_per_part = other.lines_per_part,
                         !.total_parts = other.total_parts],
               other.values)

\* Parts: the part numbers 0 .. total_parts - 1 in ascending order
parts(c) == [i \in 1..c.total_parts |-> i - 1]

state(c) ==
    IF c.total_parts > 0 /\ Len(c.values) > 0 THEN "IndexAndFile"
    ELSE IF c.total_parts > 0 THEN "FileOnly"
    ELSE IF Len(c.values) > 0 THEN "IndexOnly"
    ELSE "NoData"

PathError == "Part does not exist"

part_line_count(c, part) ==
    IF part + 1 \in DOMAIN c.lines_per_part
    THEN c.lines_per_part[part + 1]
    ELSE PathError

\* a part_file_path that never looks at the part number
part_file_path_unchecked(c, part) == <<c.encoded_key, part>>

\* the path {dir}/{encoded_key}.map.{part}.jsonl, as the pair that names it
part_file_path(c, part) ==
    IF part > c.last_part_sequence THEN PathError
    ELSE <<c.encoded_key, part>>

\* a write that truncates the file instead of appending to it
AppendToFile_truncating(fs, path, bytes) ==
    IF path \in DOMAIN fs
    THEN [fs EXCEPT ![path] = bytes]
    ELSE fs @@ (path :> bytes)

\* write_all on a file opened for appending (created when missing)
AppendToFile(fs, path, bytes) ==
    IF path \in DOMAIN fs
    THEN [fs EXCEPT ![path] = @ \o bytes]
    ELSE fs @@ (path :> bytes)

\* lines 127-134 of flush_to_file_part: write, then reset the container
WriteAndReset(c, fs, path, json_line) ==
    [ok |-> TRUE,
     c  |-> [c EXCEPT !.last_part_size = @ + Len(json_line),
                      !.values = <<>>,
                      !.buffered_size = 0],
     fs |-> AppendToFile(fs, path, json_line)]

\* lines 110-111: the first part file is created
first_part(c) ==
    [c EXCEPT !.lines_per_part = Append(@, 1),
              !.total_parts = @ + 1]

\* the size check with > in place of >=
needs_new_part_strict(c, json_line, max_part_size) ==
    Len(json_line) + c.last_part_size > max_part_size

\* line 115: the size check that decides whether a new file part is used
needs_new_part(c, json_line, max_part_size) ==
    Len(json_line) + c.last_part_size >= max_part_size

\* a new file part that keeps the old sequence number
roll_part_same_sequence(c) ==
    [c EXCEPT !.last_part_size = 0,
              !.lines_per_part = Append(@, 1),
              !.total_parts = @ + 1]

\* lines 116-120: a new file part is started
roll_part(c) ==
    [c EXCEPT !.last_part_sequence = @ + 1,
              !.last_part_size = 0,
              !.lines_per_part = Append(@, 1),
              !.total_parts = @ + 1]

\* an appended line that is not counted
append_part_uncounted(c) == c

\* line 123: one more line in the current file part
append_part(c) ==
    [c EXCEPT !.lines_per_part[c.last_part_sequence + 1] = @ + 1]

\* flush_to_file_part on the file system fs; ok = FALSE is the panic of
\* lines_per_part[last_part_sequence] on a missing entry
flush_to_file_part(c, fs, max_part_size) ==
    LET json_line == to_json_line(c.values)
        file_path == part_file_path(c, c.last_part_sequence)
    IN  IF file_path \notin DOMAIN fs
        THEN WriteAndReset(first_part(c), fs, file_path, json_line)
        ELSE IF needs_new_part(c, json_line, max_part_size)
        THEN WriteAndReset(roll_part(c), fs,
                           part_file_path(roll_part(c),
                                          roll_part(c).last_part_sequence),
                           json_line)
        ELSE IF c.last_part_sequence + 1 \notin DOMAIN c.lines_per_part
        THEN [ok |-> FALSE, c |-> c, fs |-> fs]
        ELSE WriteAndReset(append_part(c), fs, file_path, json_line)

\* bincode: the fields of the struct in declared order
serialize(c) ==
    <<c.values, c.buffered_size, c.encoded_key, c.last_part_size,
      c.last_part_sequence, c.lines_per_part, c.total_parts>>

\* a decoder that reads the two sizes of the last part in the wrong order
deserialize_swapped(bytes) ==
    [values             |-> bytes[1],
     buffered_size      |-> bytes[2],
     encoded_key        |-> bytes[3],
     last_part_size     |-> bytes[5],
     last_part_sequence |-> bytes[4],
     lines_per_part     |-> bytes[6],
     total_parts        |-> bytes[7]]

deserialize(bytes) ==
    [values             |-> bytes[1],
     buffered_size      |-> bytes[2],
     encoded_key        |-> bytes[3],
     last_part_size     |-> bytes[4],
     last_part_sequence |-> bytes[5],
     lines_per_part     |-> bytes[6],
     total_parts        |-> bytes[7]]

----------------------------------------------------------------------------
(* State *)

VARIABLES
    options,         \* CLI options the run was started with
    bucket_list,     \* indexer: one key -> MapContainer map per partition
    db,              \* Index: the KV store, key -> serialized MapContainer
    files,           \* the working directory: part file path -> bytes
    total_keys,      \* Index::total_keys
    map_iterations,  \* indexer: batches combined since the last cycle
    indexing,        \* IndexGuard: the guarded flag
    indexer_pc,      \* indexer thread: "recv", "cycle", "final" or "done"
    pending,         \* buckets whose dispatched merge has not finished
    batches,         \* number of MapResult batches received so far
    emitted,         \* per key, the values map has emitted so far (history)
    last_merge,      \* what the last Index::merge did, per key (history)
    input,           \* mapper: the bytes of the input stream
    read_pos,        \* mapper: number of input bytes read so far
    buf,             \* mapper: the accumulation buffer
    current_line,    \* mapper: number of lines read so far
    current_buf,     \* mapper: the chunk drained for the next map task
    mapper_pc,       \* mapper: "read", "wait", "execute", "leftovers", "done"
    main_pc,         \* main: "map", "join_indexer", "join_pool", "mapped"
    queue,           \* ThreadPool: the submitted tasks not yet started
    workers,         \* ThreadPool: what each worker thread is running
    channel,         \* mapper -> indexer channel: the batches in flight
    barrier,         \* the Barrier of the current indexing cycle
    map_calls,       \* every call of the user's map so far (history)
    submissions,     \* every map task the mapper submitted (history)
    temp_dir,        \* the temp directory: "absent", "present" or "removed"
    consumer_todo,   \* consumer: the Reductions it has yet to send
    consumer_result, \* consumer: what its thread returned, once it has
    reductions,      \* consumer -> reducer channel: the Reductions in flight
    tracker_keys,    \* Tracker.keys: key -> (remaining parts, part results)
    tracker_parts,   \* Tracker.parts: key -> part -> (remaining lines, results)
    result_table,    \* ResultTable: key -> final reduced value
    output           \* the bytes print has written

pipeVars == <<input, temp_dir, read_pos, buf, current_line, current_buf, mapper_pc,
              main_pc, queue, workers, channel, barrier, map_calls,
              submissions>>

indexVars == <<options, bucket_list, db, files, total_keys, map_iterations,
               indexing, indexer_pc, pending, batches, emitted,
               last_merge>>

reduceVars == <<consumer_todo, consumer_result, reductions, tracker_keys, tracker_parts,
                result_table, output>>

vars == <<indexVars, pipeVars, reduceVars>>

EmptyMap == <<>>

----------------------------------------------------------------------------
(* combiner.rs *)

Keys == {<<"a">>, <<"b">>}

\* DefaultHasher of the keys of the model: some fixed function of the key
calculate_hash(key) ==
    CASE key = <<"a">>  -> 4
      [] key = <<"b">>  -> 7
      [] key = <<"\n">> -> 9
      [] OTHER          -> Len(key)

\* a combiner that starts a new container for a key the bucket already holds
combine_one_replacing(buckets, r, partitions) ==
    LET bucket_index == calculate_hash(r.key) % partitions
    IN  [buckets EXCEPT ![bucket_index] =
            [k \in DOMAIN @ \cup {r.key} |->
                IF k = r.key THEN add_value(new(r.key), r.value) ELSE @[k]]]

combine_one(buckets, r, partitions) ==
    LET bucket_index == calculate_hash(r.key) % partitions
        bucket == buckets[bucket_index]
    IN  IF r.key \in DOMAIN bucket
        THEN [buckets EXCEPT ![bucket_index][r.key] = add_value(@, r.value)]
        ELSE [buckets EXCEPT ![bucket_index] =
                 @ @@ (r.key :> add_value(new(r.key), r.value))]

RECURSIVE combine_map_results(_, _, _)
combine_map_results(buckets, raw_results, partitions) ==
    IF raw_results = <<>> THEN buckets
    ELSE combine_map_results(combine_one(buckets, Head(raw_results), partitions),
                             Tail(raw_results), partitions)

----------------------------------------------------------------------------
(* index.rs *)

\* Index::get: found = FALSE is None
Index_get(dbv, key) ==
    IF key \in DOMAIN dbv
    THEN [found |-> TRUE, c |-> deserialize(dbv[key])]
    ELSE [found |-> FALSE, c |-> new(key)]

\* a merge that puts the stored values first
merge_existing_stored_first(key, memory_container, index_container) ==
    add_values(transfer_data(new(key), index_container), memory_container.values)

\* the container Index::merge builds for a key the store already holds
merge_existing(key, memory_container, index_container) ==
    transfer_data(add_values(new(key), memory_container.values), index_container)

\* a loop body that flushes only a container larger than flush_size
merge_key_flushing_above(key, memory_container, dbv, fs, flush_size, max_part_size) ==
    LET got == Index_get(dbv, key)
        existed == got.found
        index_container == got.c
        merged == IF existed
                  THEN merge_existing(key, memory_container, index_container)
                  ELSE memory_container
        flush == merged.buffered_size > flush_size
        flushed == flush_to_file_part(merged, fs, max_part_size)
    IN  [ok      |-> (~flush) \/ flushed.ok,
         existed |-> existed,
         memory  |-> memory_container,
         stored  |-> index_container,
         merged  |-> merged,
         flushed |-> flush,
         line    |-> IF flush THEN to_json_line(merged.values) ELSE <<>>,
         result  |-> IF flush THEN flushed.c ELSE merged,
         fs      |-> IF flush THEN flushed.fs ELSE fs]

\* the body of the loop of Index::merge for one drained (key, container)
merge_key(key, memory_container, dbv, fs, flush_size, max_part_size) ==
    LET got == Index_get(dbv, key)
        existed == got.found
        index_container == got.c
        merged == IF existed
                  THEN merge_existing(key, memory_container, index_container)
                  ELSE memory_container
        flush == merged.buffered_size >= flush_size
        flushed == flush_to_file_part(merged, fs, max_part_size)
    IN  [ok      |-> (~flush) \/ flushed.ok,
         existed |-> existed,
         memory  |-> memory_container,
         stored  |-> index_container,
         merged  |-> merged,
         flushed |-> flush,
         line    |-> IF flush THEN to_json_line(merged.values) ELSE <<>>,
         result  |-> IF flush THEN flushed.c ELSE merged,
         fs      |-> IF flush THEN flushed.fs ELSE fs]

\* Index::merge over the drained bucket, its entries taken in the given order
RECURSIVE Index_merge(_, _, _, _, _, _, _, _)
Index_merge(order, bucket, dbv, batch, fs, log, flush_size, max_part_size) ==
    IF order = <<>>
    THEN [ok |-> TRUE, db |-> batch @@ dbv, fs |-> fs, log |-> log]
    ELSE LET key == Head(order)
             m == merge_key(key, bucket[key], dbv, fs, flush_size, max_part_size)
         IN  IF ~m.ok
             THEN [ok |-> FALSE, db |-> dbv, fs |-> m.fs, log |-> log]
             ELSE Index_merge(Tail(order), bucket, dbv,
                              (key :> serialize(m.result)) @@ batch, m.fs,
                              (key :> m) @@ log, flush_size, max_part_size)

\* where a `?` of the loop of Index::merge can return the error of its
\* environment: the read of the store, the opening of the part file, its
\* fsync once the line is written, the serialization of the container
MergeFailures == {"get", "open", "sync", "serialize"}

\* what Index::merge has done when it returns Err at the entry `fail_at` of
\* the drained bucket: the entries before it were merged and their lines
\* appended, the write batch is dropped with the function's locals
FailedMergeOutcome(order, bucket, dbv, fs, flush_size, max_part_size, fail_at, stage, batch_written) ==
    LET pre == Index_merge(SubSeq(order, 1, fail_at - 1), bucket, dbv, EmptyMap,
                           fs, EmptyMap, flush_size, max_part_size)
        key == order[fail_at]
        m == merge_key(key, bucket[key], dbv, pre.fs, flush_size, max_part_size)
        appended == m.flushed /\ stage \in {"sync", "serialize"}
    IN  [applicable |-> /\ pre.ok
                        /\ m.ok
                        /\ stage \in {"open", "sync"} => m.flushed,
         ok       |-> FALSE,
         db       |-> IF batch_written THEN pre.db ELSE dbv,
         fs       |-> IF appended THEN m.fs ELSE pre.fs,
         log      |-> (key :> [m EXCEPT !.ok = FALSE,
                                        !.flushed = appended,
                                        !.line = IF appended THEN m.line ELSE <<>>,
                                        !.fs = IF appended THEN m.fs ELSE pre.fs])
                      @@ pre.log,
         new_keys |-> {k \in DOMAIN pre.log : ~pre.log[k].existed}
                      \cup (IF stage # "get" /\ ~m.existed THEN {key} ELSE {})]

\* a failing merge that still writes the batch of the entries it got through
Index_merge_failing_partial(order, bucket, dbv, fs, flush_size, max_part_size, fail_at, stage) ==
    FailedMergeOutcome(order, bucket, dbv, fs, flush_size, max_part_size,
                       fail_at, stage, TRUE)

\* Index::merge returning Err from a `?` inside its loop
Index_merge_failing(order, bucket, dbv, fs, flush_size, max_part_size, fail_at, stage) ==
    FailedMergeOutcome(order, bucket, dbv, fs, flush_size, max_part_size,
                       fail_at, stage, FALSE)

\* the orders in which HashMap::drain may yield the entries of a bucket
DrainOrders(bucket) ==
    {o \in [1..Cardinality(DOMAIN bucket) -> DOMAIN bucket] :
        \A i, j \in DOMAIN o : i # j => o[i] # o[j]}

----------------------------------------------------------------------------
(* indexer.rs: the indexer thread, its merges taken one bucket at a time *)

Values == {<<>>, <<"1", "\n">>}

MapResults == [key : Keys, value : Values]

\* what one map task may send: a list of MapResults
Batches == UNION {[1..n -> MapResults] : n \in 0..MaxBatchLen}

IndexEveryChoices == {1, 2}
FlushSizes == {1, 4}
MaxPartSizes == {8, 19}
PartitionChoices == {1, 2}

active_buckets(buckets) == {b \in DOMAIN buckets : DOMAIN buckets[b] # {}}

\* SpecIndex leaves the mapper, the pool and the channel out
PipeUnused ==
    /\ input = <<>> /\ read_pos = 0 /\ buf = <<>> /\ current_line = 0
    /\ temp_dir = "present"
    /\ current_buf = <<>> /\ mapper_pc = "done" /\ main_pc = "join_pool"
    /\ queue = <<>> /\ workers = <<>> /\ channel = <<>>
    /\ barrier = [arity |-> 0, arrived |-> 0]
    /\ map_calls = {} /\ submissions = <<>>

\* the reduce phase has not begun
ReduceUnused ==
    /\ consumer_todo = <<>> /\ consumer_result = "unspawned"
    /\ reductions = <<>>
    /\ tracker_keys = EmptyMap /\ tracker_parts = EmptyMap
    /\ result_table = EmptyMap /\ output = <<>>

InitIndex ==
    /\ options \in [index_every : IndexEveryChoices,
                    key_flush_size : FlushSizes,
                    max_file_part_size : MaxPartSizes,
                    workers : PartitionChoices]
    /\ bucket_list = [b \in 0..(options.workers - 1) |-> EmptyMap]
    /\ db = EmptyMap
    /\ files = EmptyMap
    /\ total_keys = 0
    /\ map_iterations = 0
    /\ indexing = FALSE
    /\ indexer_pc = "recv"
    /\ pending = {}
    /\ batches = 0
    /\ emitted = [k \in Keys |-> <<>>]
    /\ last_merge = EmptyMap
    /\ PipeUnused
    /\ ReduceUnused

\* the values a batch of MapResults holds for a key, in order
ValuesOf(key, results) ==
    LET idx == SelectSeq([i \in 1..Len(results) |-> i],
                         LAMBDA i : results[i].key = key)
    IN  [j \in 1..Len(idx) |-> results[idx[j]].value]

RECURSIVE EmittedCount(_)
EmittedCount(keys) ==
    IF keys = {} THEN 0
    ELSE LET k == CHOOSE k \in keys : TRUE
         IN  Len(emitted[k]) + EmittedCount(keys \ {k})

\* one iteration of `for results in receiver.iter()`, up to the dispatch of
\* the cycle's merges
IndexerReceive(results) ==
    /\ indexer_pc = "recv"
    /\ batches < MaxBatches
    /\ EmittedCount(Keys) + Len(results) <= MaxEmits
    /\ batches' = batches + 1
    /\ emitted' = [k \in Keys |-> emitted[k] \o ValuesOf(k, results)]
    /\ bucket_list' = combine_map_results(bucket_list, results, options.workers)
    /\ IF map_iterations + 1 >= options.index_every
       THEN /\ pending' = active_buckets(bucket_list')
            /\ indexing' = TRUE
            /\ map_iterations' = 0
            /\ indexer_pc' = "cycle"
       ELSE /\ map_iterations' = map_iterations + 1
            /\ UNCHANGED <<pending, indexing, indexer_pc>>
    /\ last_merge' = EmptyMap
    /\ UNCHANGED <<options, db, files, total_keys>>

NewKeys(log) == {k \in DOMAIN log : ~log[k].existed}

\* a dispatched merge task: index.merge(&bucket, ..).unwrap()
MergeTask(b) ==
    /\ b \in pending
    /\ \E order \in DrainOrders(bucket_list[b]) :
          LET m == Index_merge(order, bucket_list[b], db, EmptyMap, files,
                               EmptyMap, options.key_flush_size,
                               options.max_file_part_size)
          IN  /\ m.ok
              /\ db' = m.db
              /\ files' = m.fs
              /\ last_merge' = m.log
              /\ total_keys' = total_keys + Cardinality(NewKeys(m.log))
    /\ bucket_list' = [bucket_list EXCEPT ![b] = EmptyMap]
    /\ pending' = pending \ {b}
    /\ UNCHANGED <<options, map_iterations, indexing, indexer_pc, batches,
                   emitted>>

\* a dispatched merge task whose Index::merge returns Err: the task panics
\* on the unwrap, the Drain is dropped and leaves the bucket empty, the
\* indexing cannot complete
MergeTaskFail(b) ==
    /\ b \in pending
    /\ \E order \in DrainOrders(bucket_list[b]) :
       \E fail_at \in DOMAIN order :
       \E stage \in MergeFailures :
       \E m \in {Index_merge_failing(order, bucket_list[b], db, files,
                                     options.key_flush_size,
                                     options.max_file_part_size,
                                     fail_at, stage)} :
              /\ m.applicable
              /\ db' = m.db
              /\ files' = m.fs
              /\ last_merge' = m.log
              /\ total_keys' = total_keys + Cardinality(m.new_keys)
    /\ bucket_list' = [bucket_list EXCEPT ![b] = EmptyMap]
    /\ pending' = pending \ {b}
    /\ indexer_pc' = "failed"
    /\ UNCHANGED <<options, map_iterations, indexing, batches, emitted>>

\* the barrier of the cycle is passed, then finish_indexing
CycleEnd ==
    /\ indexer_pc = "cycle"
    /\ pending = {}
    /\ indexing' = FALSE
    /\ indexer_pc' = "recv"
    /\ UNCHANGED <<options, bucket_list, db, files, total_keys, map_iterations,
                   pending, batches, emitted, last_merge>>

\* every sender is dropped: the last index is dispatched
ChannelClosed ==
    /\ indexer_pc = "recv"
    /\ pending' = active_buckets(bucket_list)
    /\ indexer_pc' = "final"
    /\ UNCHANGED <<options, bucket_list, db, files, total_keys, map_iterations,
                   indexing, batches, emitted, last_merge>>

\* main: indexer.join() and pool.join() have returned
IndexingDone ==
    /\ indexer_pc = "final"
    /\ pending = {}
    /\ indexer_pc' = "done"
    /\ UNCHANGED <<options, bucket_list, db, files, total_keys, map_iterations,
                   indexing, pending, batches, emitted, last_merge>>

NextIndex ==
    \/ \E results \in Batches : IndexerReceive(results) /\ UNCHANGED <<pipeVars, reduceVars>>
    \/ \E b \in DOMAIN bucket_list : MergeTask(b) /\ UNCHANGED <<pipeVars, reduceVars>>
    \/ CycleEnd /\ UNCHANGED <<pipeVars, reduceVars>>
    \/ ChannelClosed /\ UNCHANGED <<pipeVars, reduceVars>>
    \/ IndexingDone /\ UNCHANGED <<pipeVars, reduceVars>>

SpecIndex == InitIndex /\ [][NextIndex]_vars

\* the indexing with merges that may fail
NextIndexFail ==
    \/ NextIndex
    \/ \E b \in DOMAIN bucket_list : MergeTaskFail(b) /\ UNCHANGED <<pipeVars, reduceVars>>

SpecIndexFail == InitIndex /\ [][NextIndexFail]_vars

----------------------------------------------------------------------------
(* js.rs *)

Digits == <<"0", "1", "2", "3", "4", "5", "6", "7", "8", "9">>

\* format!("{}", n) and String(n): the decimal digits of a natural number
RECURSIVE IntToStr(_)
IntToStr(n) ==
    IF n < 10 THEN <<Digits[n + 1]>>
    ELSE Append(IntToStr(n \div 10), Digits[(n % 10) + 1])

DigitValue(c) == CHOOSE d \in 0..9 : Digits[d + 1] = c

IsDigit(c) == \E d \in 0..9 : Digits[d + 1] = c

\* parseInt of a string of decimal digits
RECURSIVE ParseDigits(_, _)
ParseDigits(s, acc) ==
    IF s = <<>> THEN acc
    ELSE ParseDigits(Tail(s), 10 * acc + DigitValue(Head(s)))

parseInt(s) == ParseDigits(s, 0)

\* str::split("\n"): the pieces between line feeds, the last one included
RECURSIVE SplitFrom(_, _, _)
SplitFrom(text, i, cur) ==
    IF i > Len(text) THEN <<cur>>
    ELSE IF text[i] = "\n"
         THEN <<cur>> \o SplitFrom(text, i + 1, <<>>)
         ELSE SplitFrom(text, i + 1, Append(cur, text[i]))

split_lines(text) == SplitFrom(text, 1, <<>>)

\* the user's map of the model: emit(line, "1")
UserMap(key, line) == <<[key |-> line, value |-> <<"1">>]>>

\* the positions, among the pieces of split, of the non-empty ones
NonEmptyPositions(pieces) ==
    SelectSeq([j \in 1..Len(pieces) |-> j], LAMBDA j : pieces[j] # <<>>)

\* the line number run_map computes for the first line it passes to map
first_line_number(line_number, lines) == line_number - Len(lines) + 1

\* Context::run_map with mapWrapper: calls = the (key, line) pairs map is
\* called with, each with the line's position in the input stream (history:
\* the chunk ends at line line_number and holds one line per read_line);
\* results = what the calls emit
run_map(line_number, chunk) ==
    LET pieces == split_lines(chunk)
        positions == NonEmptyPositions(pieces)
        lines == [i \in 1..Len(positions) |-> pieces[positions[i]]]
        first == parseInt(IntToStr(first_line_number(line_number, lines)))
        keyOf(i) == IntToStr(first + i - 1)
    IN  [calls   |-> {[key  |-> keyOf(i),
                       line |-> lines[i],
                       true_line_number |->
                           line_number - Len(read_lines(chunk)) + positions[i]]
                      : i \in 1..Len(lines)},
         results |-> Concat([i \in 1..Len(lines) |-> UserMap(keyOf(i), lines[i])])]

----------------------------------------------------------------------------
(* thread_pool.rs: a fixed set of worker threads behind a FIFO queue *)

IdleWorker ==
    [kind |-> "idle", pc |-> "idle", line_number |-> 0, chunk |-> <<>>,
     bucket |-> 0, cycle |-> FALSE]

MapTaskOf(line_number, chunk) ==
    [kind |-> "map", pc |-> "run", line_number |-> line_number,
     chunk |-> chunk, bucket |-> 0, cycle |-> FALSE]

MergeTaskOf(bucket, cycle) ==
    [kind |-> "merge", pc |-> "run", line_number |-> 0, chunk |-> <<>>,
     bucket |-> bucket, cycle |-> cycle]

\* ThreadPool::execute
execute(q, task) == Append(q, task)

PoolIdle == queue = <<>> /\ \A w \in DOMAIN workers : workers[w].kind = "idle"

\* a worker thread takes the next task off the queue
WorkerTake(w) ==
    /\ workers[w].kind = "idle"
    /\ queue # <<>>
    /\ workers' = [workers EXCEPT ![w] = Head(queue)]
    /\ queue' = Tail(queue)
    /\ UNCHANGED <<reduceVars, indexVars, input, temp_dir, read_pos, buf, current_line, current_buf,
                   mapper_pc, main_pc, channel, barrier, map_calls, submissions>>

----------------------------------------------------------------------------
(* mapper.rs *)

\* a read_line that reads to the end of the input
LineEnd_to_end_of_input == Len(input)

\* the end of the line read_line reads next: the next line feed, or the end
\* of the input
LineEnd ==
    IF \E q \in (read_pos + 1)..Len(input) : input[q] = "\n"
    THEN CHOOSE q \in (read_pos + 1)..Len(input) :
            /\ input[q] = "\n"
            /\ \A r \in (read_pos + 1)..(q - 1) : input[r] # "\n"
    ELSE Len(input)

\* one iteration of `while reader.read_line(&mut buf)? > 0`, up to the
\* call of wait_while_indexing; at the end of the input, the loop is left
MapperReadLine ==
    /\ mapper_pc = "read"
    /\ IF read_pos >= Len(input)
       THEN /\ mapper_pc' = "leftovers"
            /\ UNCHANGED <<read_pos, buf, current_line, current_buf>>
       ELSE /\ read_pos' = LineEnd
            /\ current_line' = current_line + 1
            /\ LET filled == buf \o SubSeq(input, read_pos + 1, LineEnd)
               IN  IF Len(filled) >= options.read_buffer_size
                   THEN /\ current_buf' = filled
                        /\ buf' = <<>>
                        /\ mapper_pc' = "wait"
                   ELSE /\ buf' = filled
                        /\ UNCHANGED <<current_buf, mapper_pc>>
    /\ UNCHANGED <<reduceVars, indexVars, input, temp_dir, main_pc, queue, workers, channel, barrier,
                   map_calls, submissions>>

\* index_guard.wait_while_indexing() returns
MapperWait ==
    /\ mapper_pc = "wait"
    /\ ~indexing
    /\ mapper_pc' = "execute"
    /\ UNCHANGED <<reduceVars, indexVars, input, temp_dir, read_pos, buf, current_line, current_buf,
                   main_pc, queue, workers, channel, barrier, map_calls,
                   submissions>>

\* pool.execute of the map task of the chunk
MapperExecute ==
    /\ mapper_pc = "execute"
    /\ queue' = execute(queue, MapTaskOf(current_line, current_buf))
    /\ submissions' = Append(submissions,
                             [line_number |-> current_line,
                              leftovers |-> FALSE,
                              indexing |-> indexing])
    /\ current_buf' = <<>>
    /\ mapper_pc' = "read"
    /\ UNCHANGED <<reduceVars, indexVars, input, temp_dir, read_pos, buf, current_line, main_pc,
                   workers, channel, barrier, map_calls>>

\* the leftovers after the loop; map returns and main goes on to join
MapperLeftovers ==
    /\ mapper_pc = "leftovers"
    /\ IF Len(buf) > 0
       THEN /\ queue' = execute(queue, MapTaskOf(current_line, buf))
            /\ submissions' = Append(submissions,
                                     [line_number |-> current_line,
                                      leftovers |-> TRUE,
                                      indexing |-> indexing])
       ELSE UNCHANGED <<queue, submissions>>
    /\ buf' = <<>>
    /\ mapper_pc' = "done"
    /\ main_pc' = "join_indexer"
    /\ UNCHANGED <<reduceVars, indexVars, input, temp_dir, read_pos, current_line, current_buf,
                   workers, channel, barrier, map_calls>>

\* the map task of a chunk: run_map, then send the result to the indexer
MapTaskRun(w) ==
    /\ workers[w].kind = "map"
    /\ LET r == run_map(workers[w].line_number, workers[w].chunk)
       IN  /\ channel' = Append(channel, r.results)
           /\ map_calls' = map_calls \cup r.calls
    /\ workers' = [workers EXCEPT ![w] = IdleWorker]
    /\ UNCHANGED <<reduceVars, indexVars, input, temp_dir, read_pos, buf, current_line, current_buf,
                   mapper_pc, main_pc, queue, barrier, submissions>>

\* a Sender is alive: the mapper's own, or the clone of a map task
SendersAlive ==
    \/ mapper_pc # "done"
    \/ \E i \in 1..Len(queue) : queue[i].kind = "map"
    \/ \E w \in DOMAIN workers : workers[w].kind = "map"

----------------------------------------------------------------------------
(* indexer.rs: the indexer thread with the pool, the channel and the guard *)

\* receiver.iter() yields a batch: count it, combine it, check index_every
PipeIndexerReceive ==
    /\ indexer_pc = "recv"
    /\ channel # <<>>
    /\ channel' = Tail(channel)
    /\ batches' = batches + 1
    /\ emitted' = [k \in DOMAIN emitted |->
                      emitted[k] \o ValuesOf(k, Head(channel))]
    /\ bucket_list' = combine_map_results(bucket_list, Head(channel),
                                          options.workers)
    /\ map_iterations' = map_iterations + 1
    /\ IF map_iterations' >= options.index_every
       THEN /\ barrier' = [arity |-> Cardinality(active_buckets(bucket_list')) + 1,
                           arrived |-> 0]
            /\ indexer_pc' = "start"
       ELSE UNCHANGED <<barrier, indexer_pc>>
    /\ UNCHANGED <<reduceVars, options, db, files, total_keys, indexing, pending,
                   last_merge, input, temp_dir, read_pos, buf, current_line, current_buf,
                   mapper_pc, main_pc, queue, workers, map_calls, submissions>>

\* a cycle that starts without raising the guard
start_indexing_without_guard ==
    /\ indexer_pc = "start"
    /\ indexing' = FALSE
    /\ map_iterations' = 0
    /\ indexer_pc' = "dispatch"
    /\ UNCHANGED <<reduceVars, options, bucket_list, db, files, total_keys, pending,
                   batches, emitted, last_merge, pipeVars>>

\* a cycle that keeps the iteration counter
start_indexing_without_reset ==
    /\ indexer_pc = "start"
    /\ indexing' = TRUE
    /\ indexer_pc' = "dispatch"
    /\ UNCHANGED <<reduceVars, options, bucket_list, db, files, total_keys, pending,
                   map_iterations, batches, emitted, last_merge, pipeVars>>

\* IndexGuard::start_indexing, and the reset of the iteration counter
start_indexing ==
    /\ indexer_pc = "start"
    /\ indexing' = TRUE
    /\ map_iterations' = 0
    /\ indexer_pc' = "dispatch"
    /\ UNCHANGED <<reduceVars, options, bucket_list, db, files, total_keys, pending,
                   batches, emitted, last_merge, pipeVars>>

\* the tasks of the buckets, appended to the queue in bucket order
RECURSIVE execute_merges(_, _, _)
execute_merges(q, buckets, cycle) ==
    IF buckets = {} THEN q
    ELSE LET b == CHOOSE b \in buckets : \A c \in buckets : b <= c
         IN  execute_merges(execute(q, MergeTaskOf(b, cycle)), buckets \ {b},
                            cycle)

\* one merge task per active bucket is handed to the pool
PipeIndexerDispatch ==
    /\ indexer_pc = "dispatch"
    /\ queue' = execute_merges(queue, active_buckets(bucket_list), TRUE)
    /\ pending' = active_buckets(bucket_list)
    /\ indexer_pc' = "barrier"
    /\ UNCHANGED <<reduceVars, options, bucket_list, db, files, total_keys, map_iterations,
                   indexing, batches, emitted, last_merge, input, temp_dir, read_pos, buf,
                   current_line, current_buf, mapper_pc, main_pc, workers,
                   channel, barrier, map_calls, submissions>>

\* a barrier that waits for one party more than it was built for
BarrierFull_one_more == barrier.arrived = barrier.arity

\* Barrier::wait: the caller arrives; the last one to arrive releases all
BarrierFull == barrier.arrived + 1 = barrier.arity

ReleasedWorkers(ws) ==
    [w \in DOMAIN ws |->
        IF ws[w].kind = "merge" /\ ws[w].pc = "barrier"
        THEN [ws[w] EXCEPT !.pc = "released"] ELSE ws[w]]

\* the merge task of a bucket: Index::merge, then (in a cycle) b.wait()
PipeMergeTaskRun(w) ==
    /\ workers[w].kind = "merge"
    /\ workers[w].pc = "run"
    /\ \E order \in DrainOrders(bucket_list[workers[w].bucket]) :
          \E m \in {Index_merge(order, bucket_list[workers[w].bucket], db,
                                EmptyMap, files, EmptyMap,
                                options.key_flush_size,
                                options.max_file_part_size)} :
              /\ m.ok
              /\ db' = m.db
              /\ files' = m.fs
              /\ last_merge' = m.log
              /\ total_keys' = total_keys + Cardinality(NewKeys(m.log))
    /\ bucket_list' = [bucket_list EXCEPT ![workers[w].bucket] = EmptyMap]
    /\ pending' = pending \ {workers[w].bucket}
    /\ IF ~workers[w].cycle
       THEN /\ workers' = [workers EXCEPT ![w] = IdleWorker]
            /\ UNCHANGED <<barrier, indexer_pc>>
       ELSE IF BarrierFull
       THEN /\ workers' = [ReleasedWorkers(workers) EXCEPT ![w] = IdleWorker]
            /\ barrier' = [barrier EXCEPT !.arrived = 0]
            /\ indexer_pc' = IF indexer_pc = "waiting" THEN "finish"
                             ELSE indexer_pc
       ELSE /\ workers' = [workers EXCEPT ![w].pc = "barrier"]
            /\ barrier' = [barrier EXCEPT !.arrived = @ + 1]
            /\ UNCHANGED indexer_pc
    /\ UNCHANGED <<reduceVars, options, map_iterations, indexing, batches, emitted, input, temp_dir,
                   read_pos, buf, current_line, current_buf, mapper_pc, main_pc,
                   queue, channel, map_calls, submissions>>

\* a merge task released from the barrier returns
WorkerReleased(w) ==
    /\ workers[w].kind = "merge"
    /\ workers[w].pc = "released"
    /\ workers' = [workers EXCEPT ![w] = IdleWorker]
    /\ UNCHANGED <<reduceVars, indexVars, input, temp_dir, read_pos, buf, current_line, current_buf,
                   mapper_pc, main_pc, queue, channel, barrier, map_calls,
                   submissions>>

\* an indexer that goes on without waiting at the barrier of the cycle
PipeIndexerBarrier_without_waiting ==
    /\ indexer_pc = "barrier"
    /\ indexer_pc' = "finish"
    /\ UNCHANGED <<reduceVars, options, bucket_list, db, files, total_keys, map_iterations,
                   indexing, pending, batches, emitted, last_merge, input, temp_dir,
                   read_pos, buf, current_line, current_buf, mapper_pc, main_pc,
                   queue, workers, barrier, channel, map_calls, submissions>>

\* the indexer's own b.wait()
PipeIndexerBarrier ==
    /\ indexer_pc = "barrier"
    /\ IF BarrierFull
       THEN /\ workers' = ReleasedWorkers(workers)
            /\ barrier' = [barrier EXCEPT !.arrived = 0]
            /\ indexer_pc' = "finish"
       ELSE /\ barrier' = [barrier EXCEPT !.arrived = @ + 1]
            /\ indexer_pc' = "waiting"
            /\ UNCHANGED workers
    /\ UNCHANGED <<reduceVars, options, bucket_list, db, files, total_keys, map_iterations,
                   indexing, pending, batches, emitted, last_merge, input, temp_dir,
                   read_pos, buf, current_line, current_buf, mapper_pc, main_pc,
                   queue, channel, map_calls, submissions>>

\* IndexGuard::finish_indexing
finish_indexing ==
    /\ indexer_pc = "finish"
    /\ indexing' = FALSE
    /\ indexer_pc' = "recv"
    /\ UNCHANGED <<reduceVars, options, bucket_list, db, files, total_keys, map_iterations,
                   pending, batches, emitted, last_merge, pipeVars>>

\* the channel is closed and drained: the last index is dispatched and the
\* indexer thread ends
PipeIndexerLastIndex ==
    /\ indexer_pc = "recv"
    /\ channel = <<>>
    /\ ~SendersAlive
    /\ queue' = execute_merges(queue, active_buckets(bucket_list), FALSE)
    /\ pending' = active_buckets(bucket_list)
    /\ indexer_pc' = "exited"
    /\ UNCHANGED <<reduceVars, options, bucket_list, db, files, total_keys, map_iterations,
                   indexing, batches, emitted, last_merge, input, temp_dir, read_pos, buf,
                   current_line, current_buf, mapper_pc, main_pc, workers,
                   channel, barrier, map_calls, submissions>>

----------------------------------------------------------------------------
(* main.rs: the map and index phase *)

\* a main that does not join the indexer thread
MainJoinIndexer_without_waiting ==
    /\ main_pc = "join_indexer"
    /\ main_pc' = "join_pool"
    /\ UNCHANGED <<reduceVars, indexVars, input, temp_dir, read_pos, buf, current_line, current_buf,
                   mapper_pc, queue, workers, channel, barrier, map_calls,
                   submissions>>

\* indexer.join() returns
MainJoinIndexer ==
    /\ main_pc = "join_indexer"
    /\ indexer_pc = "exited"
    /\ main_pc' = "join_pool"
    /\ UNCHANGED <<reduceVars, indexVars, input, temp_dir, read_pos, buf, current_line, current_buf,
                   mapper_pc, queue, workers, channel, barrier, map_calls,
                   submissions>>

\* a main that goes on after indexer.join() without joining the pool
MainJoinPool_without_waiting ==
    /\ main_pc = "join_pool"
    /\ main_pc' = "mapped"
    /\ UNCHANGED <<reduceVars, indexVars, input, temp_dir, read_pos, buf, current_line, current_buf,
                   mapper_pc, queue, workers, channel, barrier, map_calls,
                   submissions>>

\* pool.join() returns: every submitted task has completed
MainJoinPool ==
    /\ main_pc = "join_pool"
    /\ PoolIdle
    /\ main_pc' = "mapped"
    /\ UNCHANGED <<reduceVars, indexVars, input, temp_dir, read_pos, buf, current_line, current_buf,
                   mapper_pc, queue, workers, channel, barrier, map_calls,
                   submissions>>

\* number of lines of the inputs of SpecPipe
MaxLines == 3

LineTexts == {<<>>, <<"a">>, <<"b">>}

\* the input streams: up to MaxLines lines, the last one with or without
\* its line feed
InputsOf(n) ==
    {Concat([i \in 1..n |-> IF i < n \/ nl THEN Append(ls[i], "\n") ELSE ls[i]])
        : ls \in [1..n -> LineTexts], nl \in BOOLEAN}

\* the stream "\na\n\nb\n": empty lines before and between two lines
ScenarioInput == <<"\n", "a", "\n", "\n", "b", "\n">>

Inputs == UNION {InputsOf(n) : n \in 0..MaxLines} \cup {ScenarioInput}

ReadBufferSizes == {2, 4, 8}
PipeIndexEvery == {1, 2}
PipeFlushSizes == {2}
PipeMaxPartSizes == {13}
PoolSizes == {2}

InitPipe ==
    /\ options \in [index_every : PipeIndexEvery,
                    key_flush_size : PipeFlushSizes,
                    max_file_part_size : PipeMaxPartSizes,
                    workers : PoolSizes,
                    read_buffer_size : ReadBufferSizes]
    /\ bucket_list = [b \in 0..(options.workers - 1) |-> EmptyMap]
    /\ db = EmptyMap
    /\ files = EmptyMap
    /\ total_keys = 0
    /\ map_iterations = 0
    /\ indexing = FALSE
    /\ indexer_pc = "recv"
    /\ pending = {}
    /\ batches = 0
    /\ emitted = [k \in Keys |-> <<>>]
    /\ last_merge = EmptyMap
    /\ input \in Inputs
    /\ temp_dir = "present"
    /\ read_pos = 0
    /\ buf = <<>>
    /\ current_line = 0
    /\ current_buf = <<>>
    /\ mapper_pc = "read"
    /\ main_pc = "map"
    /\ queue = <<>>
    /\ workers = [w \in 1..options.workers |-> IdleWorker]
    /\ channel = <<>>
    /\ barrier = [arity |-> 0, arrived |-> 0]
    /\ map_calls = {}
    /\ submissions = <<>>
    /\ ReduceUnused

NextPipe ==
    \/ MapperReadLine
    \/ MapperWait
    \/ MapperExecute
    \/ MapperLeftovers
    \/ \E w \in DOMAIN workers : WorkerTake(w)
    \/ \E w \in DOMAIN workers : MapTaskRun(w)
    \/ \E w \in DOMAIN workers : PipeMergeTaskRun(w)
    \/ \E w \in DOMAIN workers : WorkerReleased(w)
    \/ PipeIndexerReceive
    \/ start_indexing
    \/ PipeIndexerDispatch
    \/ PipeIndexerBarrier
    \/ finish_indexing
    \/ PipeIndexerLastIndex
    \/ MainJoinIndexer
    \/ MainJoinPool

SpecPipe == InitPipe /\ [][NextPipe]_vars

\* the inputs of the runs whose cycles are followed to their end: three
\* chunks of one key, chunks of two keys with leftovers, empty lines
CycleInputs ==
    {<<"a", "\n", "a", "\n", "a", "\n">>,
     <<"a", "\n", "b", "\n", "a">>,
     ScenarioInput}

\* the pools of those runs: one thread, and several
CyclePoolSizes == {1} \cup PoolSizes

\* as InitPipe, over CycleInputs and CyclePoolSizes; partitions == workers
InitPipeCycle ==
    /\ options \in [index_every : PipeIndexEvery,
                    key_flush_size : PipeFlushSizes,
                    max_file_part_size : PipeMaxPartSizes,
                    workers : CyclePoolSizes,
                    read_buffer_size : {2, 4}]
    /\ bucket_list = [b \in 0..(options.workers - 1) |-> EmptyMap]
    /\ db = EmptyMap
    /\ files = EmptyMap
    /\ total_keys = 0
    /\ map_iterations = 0
    /\ indexing = FALSE
    /\ indexer_pc = "recv"
    /\ pending = {}
    /\ batches = 0
    /\ emitted = [k \in Keys |-> <<>>]
    /\ last_merge = EmptyMap
    /\ input \in CycleInputs
    /\ temp_dir = "present"
    /\ read_pos = 0
    /\ buf = <<>>
    /\ current_line = 0
    /\ current_buf = <<>>
    /\ mapper_pc = "read"
    /\ main_pc = "map"
    /\ queue = <<>>
    /\ workers = [w \in 1..options.workers |-> IdleWorker]
    /\ channel = <<>>
    /\ barrier = [arity |-> 0, arrived |-> 0]
    /\ map_calls = {}
    /\ submissions = <<>>
    /\ ReduceUnused

WorkerIds == UNION {1..n : n \in CyclePoolSizes}

\* what PipeMergeTaskRun does to the threads of the pool: the merge of
\* worker w returns and its task ends or arrives at the barrier
MergeTaskEnds(w) ==
    /\ workers[w].kind = "merge"
    /\ workers[w].pc = "run"
    /\ workers' = IF ~workers[w].cycle
                  THEN [workers EXCEPT ![w] = IdleWorker]
                  ELSE IF BarrierFull
                  THEN [ReleasedWorkers(workers) EXCEPT ![w] = IdleWorker]
                  ELSE [workers EXCEPT ![w].pc = "barrier"]

\* the threads of the map and index phase: the main thread (mapper, then the
\* joins), the indexer thread and the threads of the pool
MainThread ==
    \/ MapperReadLine \/ MapperWait \/ MapperExecute \/ MapperLeftovers
    \/ MainJoinIndexer \/ MainJoinPool

IndexerThread ==
    \/ PipeIndexerReceive \/ start_indexing \/ PipeIndexerDispatch
    \/ PipeIndexerBarrier \/ finish_indexing \/ PipeIndexerLastIndex

PoolThread(w) ==
    /\ w \in DOMAIN workers
    /\ \/ WorkerTake(w) \/ MapTaskRun(w) \/ MergeTaskEnds(w)
       \/ WorkerReleased(w)

\* the operating system runs every thread that can take a step, and the
\* tasks end without error: a thread that stays able to step does step
PipeFairness ==
    /\ WF_vars(MainThread)
    /\ WF_vars(IndexerThread)
    /\ \A w \in WorkerIds : WF_workers(PoolThread(w))

\* the map and index phase with every thread scheduled
SpecPipeFair == InitPipeCycle /\ [][NextPipe]_vars /\ PipeFairness

----------------------------------------------------------------------------
(* indexer.rs: a merge task whose Index::merge returns an error *)

\* index.merge(..) returns Err (an I/O error of the store or of a part
\* file, here on the first key): the drain empties the bucket, nothing is
\* written, unwrap panics and the task ends without reaching b.wait()
PipeMergeTaskFail(w) ==
    /\ workers[w].kind = "merge"
    /\ workers[w].pc = "run"
    /\ workers[w].cycle
    /\ bucket_list' = [bucket_list EXCEPT ![workers[w].bucket] = EmptyMap]
    /\ workers' = [workers EXCEPT ![w].pc = "panicked"]
    /\ UNCHANGED <<reduceVars, options, db, files, total_keys, map_iterations,
                   indexing, indexer_pc, pending, batches, emitted, last_merge,
                   input, temp_dir, read_pos, buf, current_line, current_buf, mapper_pc,
                   main_pc, queue, channel, barrier, map_calls, submissions>>

NextPipeFail ==
    \/ NextPipe
    \/ \E w \in DOMAIN workers : PipeMergeTaskFail(w)

\* the map and index phase with merges that may fail
SpecPipeFail == InitPipe /\ [][NextPipeFail]_vars

----------------------------------------------------------------------------
(* index.rs, consumer.rs: the iteration of the index and the Reductions *)

\* the byte of a character of the model
ByteOf(c) ==
    CASE c = "\t" -> 9
      [] c = "\n" -> 10
      [] c = "a"  -> 97
      [] c = "b"  -> 98
      [] c = "c"  -> 99
      [] OTHER    -> 48 + DigitValue(c)

\* the bytewise order of rocksdb's default comparator
RECURSIVE BytesLess(_, _)
BytesLess(x, y) ==
    IF y = <<>> THEN FALSE
    ELSE IF x = <<>> THEN TRUE
    ELSE IF ByteOf(Head(x)) # ByteOf(Head(y))
         THEN ByteOf(Head(x)) < ByteOf(Head(y))
         ELSE BytesLess(Tail(x), Tail(y))

\* DB::iterator(IteratorMode::Start): the keys in ascending byte order
RECURSIVE IterateFromStart(_)
IterateFromStart(keys) ==
    IF keys = {} THEN <<>>
    ELSE LET first == CHOOSE k \in keys :
                          \A other \in keys \ {k} : BytesLess(k, other)
         IN  <<first>> \o IterateFromStart(keys \ {first})

\* DB::iterator(IteratorMode::End): the keys in descending byte order
RECURSIVE IterateFromEnd(_)
IterateFromEnd(keys) ==
    IF keys = {} THEN <<>>
    ELSE LET last == CHOOSE k \in keys :
                         \A other \in keys \ {k} : BytesLess(other, k)
         IN  <<last>> \o IterateFromEnd(keys \ {last})

\* Index::iter: the (key, container) pairs in ascending key order
Index_iter(dbv) ==
    LET order == IterateFromStart(DOMAIN dbv)
    IN  [i \in 1..Len(order) |->
            [key |-> order[i], container |-> deserialize(dbv[order[i]])]]

FromIndex(values) == [from |-> "index", line |-> <<>>, values |-> values]

FromFile(line) == [from |-> "file", line |-> line, values |-> <<>>]

KeyInit(key, total_parts) ==
    [type |-> "KeyInit", key |-> key, part |-> 0, count |-> total_parts,
     value |-> FromIndex(<<>>)]

FilePartInit(key) ==
    [type |-> "FilePartInit", key |-> key, part |-> 0, count |-> 0,
     value |-> FromIndex(<<>>)]

FileLineInit(key, part, total_lines) ==
    [type |-> "FileLineInit", key |-> key, part |-> part,
     count |-> total_lines, value |-> FromIndex(<<>>)]

FileLine(key, part, value) ==
    [type |-> "FileLine", key |-> key, part |-> part, count |-> 0,
     value |-> value]

\* a consumer that reads the first part file for every part
PartReductions_first_part(key, c, part, fs) ==
    LET lines == read_lines(fs[part_file_path(c, 0)])
    IN  <<FileLineInit(key, part, part_line_count(c, part))>>
        \o [i \in 1..Len(lines) |-> FileLine(key, part, FromFile(lines[i]))]

\* the Reductions of one part file: its FileLineInit, then a FileLine per
\* line that read_line yields
PartReductions(key, c, part, fs) ==
    LET lines == read_lines(fs[part_file_path(c, part)])
    IN  <<FileLineInit(key, part, part_line_count(c, part))>>
        \o [i \in 1..Len(lines) |-> FileLine(key, part, FromFile(lines[i]))]

FileReductions(key, c, fs) ==
    Concat([i \in 1..Len(parts(c)) |-> PartReductions(key, c, parts(c)[i], fs)])

\* a consumer that announces only the parts on disk although it also sends
\* the values held in memory
KeyReductions_without_extra_part(key, c, fs) ==
    LET total_parts == Len(parts(c))
        new_part == parts(c)[Len(parts(c))] + 1
    IN  CASE state(c) = "IndexAndFile" ->
               <<KeyInit(key, total_parts), FilePartInit(key)>>
               \o FileReductions(key, c, fs)
               \o <<FileLineInit(key, new_part, 1),
                    FileLine(key, new_part, FromIndex(c.values))>>
          [] state(c) = "FileOnly" ->
               <<KeyInit(key, total_parts), FilePartInit(key)>>
               \o FileReductions(key, c, fs)
          [] state(c) = "IndexOnly" ->
               <<KeyInit(key, 1), FilePartInit(key), FileLineInit(key, 0, 1),
                 FileLine(key, 0, FromIndex(c.values))>>
          [] OTHER -> <<>>

\* the body of the consumer's loop for one (key, container)
KeyReductions(key, c, fs) ==
    LET total_parts == Len(parts(c))
        new_part == parts(c)[Len(parts(c))] + 1
    IN  CASE state(c) = "IndexAndFile" ->
               <<KeyInit(key, total_parts + 1), FilePartInit(key)>>
               \o FileReductions(key, c, fs)
               \o <<FileLineInit(key, new_part, 1),
                    FileLine(key, new_part, FromIndex(c.values))>>
          [] state(c) = "FileOnly" ->
               <<KeyInit(key, total_parts), FilePartInit(key)>>
               \o FileReductions(key, c, fs)
          [] state(c) = "IndexOnly" ->
               <<KeyInit(key, 1), FilePartInit(key), FileLineInit(key, 0, 1),
                 FileLine(key, 0, FromIndex(c.values))>>
          [] OTHER -> <<>>

\* everything the consumer sends, in order (the index and the part files
\* do not change while it runs)
ConsumerStream(dbv, fs) ==
    LET pairs == Index_iter(dbv)
    IN  Concat([i \in 1..Len(pairs) |->
                   KeyReductions(pairs[i].key, pairs[i].container, fs)])

Ok == "Ok"

TempDirModified == "Temp directory modified while running"

\* `for part in container.parts()` from the i-th part on: a part whose file
\* does not exist ends the consumer with the error, before anything is sent
\* for the part
RECURSIVE FilePartsFrom(_, _, _, _)
FilePartsFrom(key, c, i, fs) ==
    IF i > Len(parts(c)) THEN [sent |-> <<>>, result |-> Ok]
    ELSE IF part_file_path(c, parts(c)[i]) \notin DOMAIN fs
         THEN [sent |-> <<>>, result |-> TempDirModified]
         ELSE LET rest == FilePartsFrom(key, c, i + 1, fs)
              IN  [sent |-> PartReductions(key, c, parts(c)[i], fs) \o rest.sent,
                   result |-> rest.result]

\* the body of the consumer's loop for one (key, container), with the check
\* that each part file exists
KeyOutcome(key, c, fs) ==
    LET total_parts == Len(parts(c))
        new_part == parts(c)[Len(parts(c))] + 1
        f == FilePartsFrom(key, c, 1, fs)
    IN  CASE state(c) = "IndexAndFile" ->
               [sent |-> <<KeyInit(key, total_parts + 1), FilePartInit(key)>>
                         \o f.sent
                         \o IF f.result = Ok
                            THEN <<FileLineInit(key, new_part, 1),
                                   FileLine(key, new_part, FromIndex(c.values))>>
                            ELSE <<>>,
                result |-> f.result]
          [] state(c) = "FileOnly" ->
               [sent |-> <<KeyInit(key, total_parts), FilePartInit(key)>>
                         \o f.sent,
                result |-> f.result]
          [] state(c) = "IndexOnly" ->
               [sent |-> <<KeyInit(key, 1), FilePartInit(key),
                           FileLineInit(key, 0, 1),
                           FileLine(key, 0, FromIndex(c.values))>>,
                result |-> Ok]
          [] OTHER -> [sent |-> <<>>, result |-> Ok]

\* `for pair in index.iter()` from the i-th pair on
RECURSIVE ConsumeFrom(_, _, _)
ConsumeFrom(pairs, i, fs) ==
    IF i > Len(pairs) THEN [sent |-> <<>>, result |-> Ok]
    ELSE LET k == KeyOutcome(pairs[i].key, pairs[i].container, fs)
         IN  IF k.result # Ok THEN k
             ELSE LET rest == ConsumeFrom(pairs, i + 1, fs)
                  IN  [sent |-> k.sent \o rest.sent, result |-> rest.result]

\* spawn_consumer: what the consumer sends, in order, and what its thread
\* returns
ConsumerOutcome(dbv, fs) == ConsumeFrom(Index_iter(dbv), 1, fs)

----------------------------------------------------------------------------
(* js.rs: reduce *)

I32Max == 2147483647

\* str::parse::<i32>().unwrap_or_default() of the sum helper
parse_i32(text) ==
    IF text # <<>> /\ (\A i \in DOMAIN text : IsDigit(text[i]))
          /\ parseInt(text) <= I32Max
    THEN parseInt(text) ELSE 0

\* the sum helper over an array of strings
sum(values) == SumSeq([i \in 1..Len(values) |-> parse_i32(values[i])])

\* the user's reduce of the model: return sum(values)
UserReduce(key, values, rereduce) == sum(values)

\* serde_json::to_string of the values
to_json_string(values) ==
    SubSeq(to_json_line(values), 1, Len(to_json_line(values)) - 1)

\* Context::run_reduce with reduceWrapper: the values go through JSON, the
\* number reduce returns is stringified
run_reduce(key, values, rereduce) ==
    IntToStr(UserReduce(key, from_json(to_json_string(values)).values, rereduce))

----------------------------------------------------------------------------
(* reducer.rs: the Tracker *)

new_key(keys, key, total_parts) ==
    [k \in DOMAIN keys \cup {key} |->
        IF k = key THEN [remaining |-> total_parts, results |-> <<>>]
        ELSE keys[k]]

new_part(partsv, key) ==
    [k \in DOMAIN partsv \cup {key} |->
        IF k = key THEN EmptyMap ELSE partsv[k]]

new_line(partsv, key, current_part, total_lines) ==
    [partsv EXCEPT ![key] =
        [p \in DOMAIN partsv[key] \cup {current_part} |->
            IF p = current_part
            THEN [remaining |-> total_lines, results |-> <<>>]
            ELSE partsv[key][p]]]

\* a counter decremented unless it is already 0
decrement(n) == IF n > 0 THEN n - 1 ELSE n

\* a save that forgets the results saved before
save_result_replacing(entry, result) ==
    [remaining |-> decrement(entry.remaining), results |-> <<result>>]

\* push the result, decrement the counter
save_result(entry, result) ==
    [remaining |-> decrement(entry.remaining),
     results   |-> Append(entry.results, result)]

\* a save_line_result that reports every part as done
save_line_result_always_done(partsv, key, part, result) ==
    [parts |-> [partsv EXCEPT ![key][part] = save_result(partsv[key][part], result)],
     done  |-> TRUE]

\* Tracker::save_line_result: done = the whole part is reduced
save_line_result(partsv, key, part, result) ==
    LET entry == save_result(partsv[key][part], result)
    IN  [parts |-> [partsv EXCEPT ![key][part] = entry],
         done  |-> entry.remaining = 0]

\* the orders in which HashMap::values_mut may yield the parts of a key
PartOrders(partsv, key) ==
    {o \in [1..Cardinality(DOMAIN partsv[key]) -> DOMAIN partsv[key]] :
        \A i, j \in DOMAIN o : i # j => o[i] # o[j]}

\* a merge_line_results that copies the line results and leaves them in place
merge_line_results_copying(partsv, key, order) ==
    [parts  |-> partsv,
     values |-> Concat([i \in 1..Len(order) |-> partsv[key][order[i]].results])]

\* Tracker::merge_line_results: the line results of every part of the key
\* are moved out, the parts taken in the given order
merge_line_results(partsv, key, order) ==
    [parts  |-> [partsv EXCEPT ![key] =
                    [p \in DOMAIN partsv[key] |->
                        [partsv[key][p] EXCEPT !.results = <<>>]]],
     values |-> Concat([i \in 1..Len(order) |-> partsv[key][order[i]].results])]

\* Tracker::save_part_result: done = all parts of the key are reduced
save_part_result(keys, key, result) ==
    LET entry == save_result(keys[key], result)
    IN  [keys |-> [keys EXCEPT ![key] = entry],
         done |-> entry.remaining = 0]

\* a get_and_clean_key_results that leaves the key's entry in Tracker.parts
get_and_clean_key_results_keeping_parts(keys, partsv, key) ==
    [keys   |-> [k \in DOMAIN keys \ {key} |-> keys[k]],
     parts  |-> partsv,
     values |-> keys[key].results]

\* Tracker::get_and_clean_key_results
get_and_clean_key_results(keys, partsv, key) ==
    [keys   |-> [k \in DOMAIN keys \ {key} |-> keys[k]],
     parts  |-> [k \in DOMAIN partsv \ {key} |-> partsv[k]],
     values |-> keys[key].results]

----------------------------------------------------------------------------
(* result_table.rs, printer.rs *)

\* ResultTable::add: DB::put
ResultTable_add(table, key, result) ==
    [k \in DOMAIN table \cup {key} |-> IF k = key THEN result ELSE table[k]]

\* an ordering that ignores the option
ResultsOrdering_always_asc(order) == "Asc"

\* ResultsOrdering::new
ResultsOrdering_new(order) == IF order = <<"d", "e", "s", "c">> THEN "Desc" ELSE "Asc"

\* ResultTable::iter: the entries from the start or from the end
ResultTable_iter(table, ordering) ==
    LET order == IF ordering = "Asc" THEN IterateFromStart(DOMAIN table)
                 ELSE IterateFromEnd(DOMAIN table)
    IN  [i \in 1..Len(order) |-> [key |-> order[i], result |-> table[order[i]]]]

\* print: format!("{}\t{}\n", key, result) of every entry, in order
write_results(table, order) ==
    LET entries == ResultTable_iter(table, ResultsOrdering_new(order))
    IN  Concat([i \in 1..Len(entries) |->
                   entries[i].key \o <<"\t">> \o entries[i].result \o <<"\n">>])

----------------------------------------------------------------------------
(* consumer.rs, reducer.rs, main.rs: the reduce phase *)

IdleReducer ==
    [kind |-> "idle", pc |-> "idle", key |-> <<>>, part |-> 0,
     value |-> FromIndex(<<>>), local |-> <<>>]

\* the closure the reducer hands to the pool for a FileLine
ReduceTaskOf(key, part, value) ==
    [kind |-> "reduce", pc |-> "line", key |-> key, part |-> part,
     value |-> value, local |-> <<>>]

\* a worker whose task has panicked on an unwrap
Panicked(w) == [workers EXCEPT ![w].pc = "panicked"]

\* the consumer sends its next Reduction; it blocks while the channel holds
\* `workers` of them
ConsumerSend ==
    /\ main_pc = "reduce"
    /\ consumer_todo # <<>>
    /\ Len(reductions) < options.workers
    /\ reductions' = Append(reductions, Head(consumer_todo))
    /\ consumer_todo' = Tail(consumer_todo)
    /\ UNCHANGED <<indexVars, pipeVars, consumer_result, tracker_keys,
                   tracker_parts, result_table, output>>

\* the consumer's thread returns: Ok(()) after the last Reduction, the error
\* when it found a part file missing
ConsumerReturn ==
    /\ main_pc = "reduce"
    /\ consumer_todo = <<>>
    /\ consumer_result = "running"
    /\ consumer_result' = ConsumerOutcome(db, files).result
    /\ UNCHANGED <<indexVars, pipeVars, consumer_todo, reductions,
                   tracker_keys, tracker_parts, result_table, output>>

\* the mutex of Tracker.parts is free: it is held from one step to the next
\* only by get_and_clean_key_results, which takes the mutex of Tracker.keys
\* while it holds it
PartsLockFree ==
    \A w \in DOMAIN workers :
        ~(workers[w].kind = "reduce" /\ workers[w].pc = "clean_keys")

\* one iteration of `for reduction in reduction_receiver.iter()`
ReducerReceive ==
    /\ reductions # <<>>
    /\ Head(reductions).type \in {"FilePartInit", "FileLineInit"} => PartsLockFree
    /\ reductions' = Tail(reductions)
    /\ LET r == Head(reductions)
       IN  CASE r.type = "KeyInit" ->
                  /\ tracker_keys' = new_key(tracker_keys, r.key, r.count)
                  /\ UNCHANGED <<tracker_parts, queue>>
             [] r.type = "FilePartInit" ->
                  /\ tracker_parts' = new_part(tracker_parts, r.key)
                  /\ UNCHANGED <<tracker_keys, queue>>
             [] r.type = "FileLineInit" ->
                  /\ tracker_parts' = new_line(tracker_parts, r.key, r.part,
                                               r.count)
                  /\ UNCHANGED <<tracker_keys, queue>>
             [] OTHER ->
                  /\ queue' = execute(queue, ReduceTaskOf(r.key, r.part, r.value))
                  /\ UNCHANGED <<tracker_keys, tracker_parts>>
    /\ UNCHANGED <<indexVars, input, temp_dir, read_pos, buf, current_line, current_buf,
                   mapper_pc, main_pc, workers, channel, barrier, map_calls,
                   submissions, consumer_todo,
                   consumer_result, result_table, output>>

\* a match that hands the text of a part-file line to reduce as one value
LineValues_unparsed(value) ==
    IF value.from = "file" THEN [ok |-> TRUE, values |-> <<value.line>>]
    ELSE [ok |-> TRUE, values |-> value.values]

\* the values of a FileLine: a line of a part file is parsed
LineValues(value) ==
    IF value.from = "file" THEN from_json(value.line)
    ELSE [ok |-> TRUE, values |-> value.values]

\* first level: reduce of the line, then save_line_result
ReduceLine(w) ==
    /\ workers[w].kind = "reduce"
    /\ workers[w].pc = "line"
    /\ PartsLockFree
    /\ LET t == workers[w]
           parsed == LineValues(t.value)
           reduced == run_reduce(t.key, parsed.values, FALSE)
           saved == save_line_result(tracker_parts, t.key, t.part, reduced)
       IN  IF ~parsed.ok \/ t.key \notin DOMAIN tracker_parts
              \/ t.part \notin DOMAIN tracker_parts[t.key]
           THEN /\ workers' = Panicked(w)
                /\ UNCHANGED tracker_parts
           ELSE /\ tracker_parts' = saved.parts
                /\ workers' = IF saved.done
                              THEN [workers EXCEPT ![w].pc = "merge"]
                              ELSE [workers EXCEPT ![w] = IdleReducer]
    /\ UNCHANGED <<indexVars, input, temp_dir, read_pos, buf, current_line, current_buf,
                   mapper_pc, main_pc, queue, channel, barrier, map_calls,
                   submissions, consumer_todo,
                   consumer_result, reductions, tracker_keys,
                   result_table, output>>

\* the part is done: merge_line_results
ReduceMerge(w) ==
    /\ workers[w].kind = "reduce"
    /\ workers[w].pc = "merge"
    /\ PartsLockFree
    /\ LET t == workers[w]
       IN  IF t.key \notin DOMAIN tracker_parts
           THEN /\ workers' = Panicked(w)
                /\ UNCHANGED tracker_parts
           ELSE \E order \in PartOrders(tracker_parts, t.key) :
                   LET merged == merge_line_results(tracker_parts, t.key, order)
                   IN  /\ tracker_parts' = merged.parts
                       /\ workers' = [workers EXCEPT ![w].pc = "part",
                                                     ![w].local = merged.values]
    /\ UNCHANGED <<indexVars, input, temp_dir, read_pos, buf, current_line, current_buf,
                   mapper_pc, main_pc, queue, channel, barrier, map_calls,
                   submissions, consumer_todo,
                   consumer_result, reductions, tracker_keys,
                   result_table, output>>

\* second level: rereduce of the merged line results, then save_part_result
ReducePart(w) ==
    /\ workers[w].kind = "reduce"
    /\ workers[w].pc = "part"
    /\ LET t == workers[w]
           reduced == run_reduce(t.key, t.local, TRUE)
           saved == save_part_result(tracker_keys, t.key, reduced)
       IN  IF t.key \notin DOMAIN tracker_keys
           THEN /\ workers' = Panicked(w)
                /\ UNCHANGED tracker_keys
           ELSE /\ tracker_keys' = saved.keys
                /\ workers' = IF saved.done
                              THEN [workers EXCEPT ![w].pc = "clean",
                                                   ![w].local = <<>>]
                              ELSE [workers EXCEPT ![w] = IdleReducer]
    /\ UNCHANGED <<indexVars, input, temp_dir, read_pos, buf, current_line, current_buf,
                   mapper_pc, main_pc, queue, channel, barrier, map_calls,
                   submissions, consumer_todo,
                   consumer_result, reductions, tracker_parts,
                   result_table, output>>

\* all parts are done: get_and_clean_key_results takes the mutex of
\* Tracker.parts and removes the entry of the key
ReduceClean(w) ==
    /\ workers[w].kind = "reduce"
    /\ workers[w].pc = "clean"
    /\ PartsLockFree
    /\ LET t == workers[w]
       IN  IF t.key \notin DOMAIN tracker_parts
           THEN /\ workers' = Panicked(w)
                /\ UNCHANGED tracker_parts
           ELSE /\ tracker_parts' =
                      get_and_clean_key_results(tracker_keys, tracker_parts,
                                                t.key).parts
                /\ workers' = [workers EXCEPT ![w].pc = "clean_keys"]
    /\ UNCHANGED <<indexVars, input, temp_dir, read_pos, buf, current_line, current_buf,
                   mapper_pc, main_pc, queue, channel, barrier, map_calls,
                   submissions, consumer_todo, tracker_keys,
                   consumer_result, reductions, result_table, output>>

\* get_and_clean_key_results, still holding the mutex of Tracker.parts, takes
\* the mutex of Tracker.keys, removes the entry of the key and returns its
\* part results; both mutexes are released
ReduceCleanKeys(w) ==
    /\ workers[w].kind = "reduce"
    /\ workers[w].pc = "clean_keys"
    /\ LET t == workers[w]
       IN  IF t.key \notin DOMAIN tracker_keys
           THEN /\ workers' = Panicked(w)
                /\ UNCHANGED tracker_keys
           ELSE \E cleaned \in {get_and_clean_key_results(tracker_keys,
                                                          tracker_parts, t.key)} :
                   /\ tracker_keys' = cleaned.keys
                   /\ workers' = [workers EXCEPT ![w].pc = "key",
                                                 ![w].local = cleaned.values]
    /\ UNCHANGED <<indexVars, input, temp_dir, read_pos, buf, current_line, current_buf,
                   mapper_pc, main_pc, queue, channel, barrier, map_calls,
                   submissions, consumer_todo, tracker_parts,
                   consumer_result, reductions, result_table, output>>

\* third level: rereduce of the part results, stored in the ResultTable
ReduceKey(w) ==
    /\ workers[w].kind = "reduce"
    /\ workers[w].pc = "key"
    /\ result_table' = ResultTable_add(result_table, workers[w].key,
                           run_reduce(workers[w].key, workers[w].local, TRUE))
    /\ workers' = [workers EXCEPT ![w] = IdleReducer]
    /\ UNCHANGED <<indexVars, input, temp_dir, read_pos, buf, current_line, current_buf,
                   mapper_pc, main_pc, queue, channel, barrier, map_calls,
                   submissions, consumer_todo,
                   consumer_result, reductions, tracker_keys,
                   tracker_parts, output>>

\* a main that unwraps the consumer's join and drops the Result inside
MainWriteResults_ignoring_error ==
    /\ main_pc = "reduce"
    /\ consumer_result # "running"
    /\ reductions = <<>>
    /\ PoolIdle
    /\ output' = write_results(result_table, options.order)
    /\ main_pc' = "printed"
    /\ UNCHANGED <<indexVars, input, temp_dir, read_pos, buf, current_line, current_buf,
                   mapper_pc, queue, workers, channel, barrier, map_calls,
                   submissions, consumer_todo, consumer_result, reductions,
                   tracker_keys, tracker_parts, result_table>>

\* main: consumer, reducer and pool are joined, the results are printed
MainWriteResults ==
    /\ main_pc = "reduce"
    /\ consumer_result = Ok
    /\ reductions = <<>>
    /\ PoolIdle
    /\ output' = write_results(result_table, options.order)
    /\ main_pc' = "printed"
    /\ UNCHANGED <<indexVars, input, temp_dir, read_pos, buf, current_line, current_buf,
                   mapper_pc, queue, workers, channel, barrier, map_calls,
                   submissions, consumer_todo,
                   consumer_result, reductions, tracker_keys,
                   tracker_parts, result_table>>

\* the keys of the reduce phase
ReduceKeys == {<<"a">>, <<"b">>, <<"\n">>}

\* what the map tasks behind the reduce phase emit: integers of one and of
\* two bytes, so that a merge may or may not reach the flush size
ReduceResults ==
    {[key |-> <<"a">>,  value |-> <<"1">>],
     [key |-> <<"a">>,  value |-> <<"1", "2">>],
     [key |-> <<"b">>,  value |-> <<"1", "2">>],
     [key |-> <<"\n">>, value |-> <<"1">>]}

\* a batch: one MapResult
ReduceBatches == {<<r>> : r \in ReduceResults}

ReduceHistories == UNION {[1..n -> ReduceBatches] : n \in 0..MaxBatches}

ReduceFlushSizes == {2}
ReduceMaxPartSizes == {15}
Orders == {<<"a", "s", "c">>, <<"d", "e", "s", "c">>}

\* the merge tasks of one cycle, bucket after bucket
RECURSIVE merge_buckets(_, _, _, _)
merge_buckets(st, buckets, todo, opts) ==
    IF todo = {} THEN st
    ELSE LET b == CHOOSE b \in todo : \A c \in todo : b <= c
             order == CHOOSE o \in DrainOrders(buckets[b]) : TRUE
             m == Index_merge(order, buckets[b], st.db, EmptyMap, st.fs,
                              EmptyMap, opts.key_flush_size,
                              opts.max_file_part_size)
         IN  merge_buckets([db |-> m.db, fs |-> m.fs], buckets, todo \ {b}, opts)

\* the index and the part files once the indexer has received the batches
\* of the history and merged each of them (index_every = 1)
RECURSIVE index_history(_, _, _)
index_history(st, history, opts) ==
    IF history = <<>> THEN st
    ELSE LET buckets == combine_map_results(
                            [b \in 0..(opts.workers - 1) |-> EmptyMap],
                            Head(history), opts.workers)
         IN  index_history(merge_buckets(st, buckets, active_buckets(buckets),
                                         opts),
                           Tail(history), opts)

\* main after pool.join(): the map and index phase is over, spawn_reducer
\* and spawn_consumer have run
InitReduce ==
    /\ options \in [index_every : {1},
                    key_flush_size : ReduceFlushSizes,
                    max_file_part_size : ReduceMaxPartSizes,
                    workers : PoolSizes,
                    order : Orders]
    /\ \E history \in ReduceHistories :
          LET st == index_history([db |-> EmptyMap, fs |-> EmptyMap], history,
                                  options)
          IN  /\ db = st.db
              /\ files = st.fs
              /\ batches = Len(history)
              /\ emitted = [k \in ReduceKeys |-> ValuesOf(k, Concat(history))]
    /\ bucket_list = [b \in 0..(options.workers - 1) |-> EmptyMap]
    /\ total_keys = Cardinality(DOMAIN db)
    /\ map_iterations = 0
    /\ indexing = FALSE
    /\ indexer_pc = "exited"
    /\ pending = {}
    /\ last_merge = EmptyMap
    /\ input = <<>> /\ read_pos = 0 /\ buf = <<>> /\ current_line = 0
    /\ temp_dir = "present"
    /\ current_buf = <<>> /\ mapper_pc = "done" /\ main_pc = "reduce"
    /\ queue = <<>>
    /\ workers = [w \in 1..options.workers |-> IdleReducer]
    /\ channel = <<>>
    /\ barrier = [arity |-> 0, arrived |-> 0]
    /\ map_calls = {} /\ submissions = <<>>
    /\ consumer_todo = ConsumerStream(db, files)
    /\ consumer_result = "running"
    /\ reductions = <<>>
    /\ tracker_keys = EmptyMap /\ tracker_parts = EmptyMap
    /\ result_table = EmptyMap /\ output = <<>>

NextReduce ==
    \/ ConsumerSend
    \/ ConsumerReturn
    \/ ReducerReceive
    \/ \E w \in DOMAIN workers : WorkerTake(w)
    \/ \E w \in DOMAIN workers : ReduceLine(w)
    \/ \E w \in DOMAIN workers : ReduceMerge(w)
    \/ \E w \in DOMAIN workers : ReducePart(w)
    \/ \E w \in DOMAIN workers : ReduceClean(w)
    \/ \E w \in DOMAIN workers : ReduceCleanKeys(w)
    \/ \E w \in DOMAIN workers : ReduceKey(w)
    \/ MainWriteResults

SpecReduce == InitReduce /\ [][NextReduce]_vars

\* what ConsumerReturn does to the consumer's result: the thread returns
ConsumerReturns ==
    /\ main_pc = "reduce"
    /\ consumer_todo = <<>>
    /\ consumer_result = "running"
    /\ consumer_result' \in {Ok, TempDirModified}

\* what ReduceLine, ReducePart and ReduceKey do to the threads of the pool:
\* the call of reduce returns and the task goes on, ends or panics
ReduceReturns(w) ==
    /\ workers[w].kind = "reduce"
    /\ \/ /\ workers[w].pc = "line"
          /\ PartsLockFree
          /\ workers' \in {Panicked(w), [workers EXCEPT ![w].pc = "merge"],
                           [workers EXCEPT ![w] = IdleReducer]}
       \/ /\ workers[w].pc = "part"
          /\ workers' \in {Panicked(w),
                           [workers EXCEPT ![w].pc = "clean", ![w].local = <<>>],
                           [workers EXCEPT ![w] = IdleReducer]}
       \/ /\ workers[w].pc = "key"
          /\ workers' = [workers EXCEPT ![w] = IdleReducer]

\* a thread of the pool
ReduceThread(w) ==
    /\ w \in DOMAIN workers
    /\ \/ WorkerTake(w) \/ ReduceReturns(w) \/ ReduceMerge(w)
       \/ ReduceClean(w) \/ ReduceCleanKeys(w)

\* the operating system runs every thread that can take a step (the
\* consumer, the reducer, the threads of the pool, and main once it has
\* joined them); a thread that waits for a mutex goes on once the mutex
\* stays free
ReduceFairness ==
    /\ WF_vars(ConsumerSend)
    /\ WF_consumer_result(ConsumerReturns)
    /\ WF_vars(ReducerReceive)
    /\ \A w \in WorkerIds : WF_workers(ReduceThread(w))
    /\ WF_vars(MainWriteResults)

\* the reduce phase with every thread scheduled
SpecReduceFair == InitReduce /\ [][NextReduce]_vars /\ ReduceFairness

\* what is left of the part files when at most one of them has been removed
\* from the temp directory behind the program's back
FilesAfterRemoval(fs) ==
    {fs} \cup {[q \in DOMAIN fs \ {p} |-> fs[q]] : p \in DOMAIN fs}

\* as InitReduce, with a temp directory that may have lost a part file by
\* the time the consumer reaches it
InitReduceRemoved ==
    /\ options \in [index_every : {1},
                    key_flush_size : ReduceFlushSizes,
                    max_file_part_size : ReduceMaxPartSizes,
                    workers : PoolSizes,
                    order : Orders]
    /\ \E history \in ReduceHistories :
          LET st == index_history([db |-> EmptyMap, fs |-> EmptyMap], history,
                                  options)
          IN  /\ db = st.db
              /\ files \in FilesAfterRemoval(st.fs)
              /\ batches = Len(history)
              /\ emitted = [k \in ReduceKeys |-> ValuesOf(k, Concat(history))]
    /\ bucket_list = [b \in 0..(options.workers - 1) |-> EmptyMap]
    /\ total_keys = Cardinality(DOMAIN db)
    /\ map_iterations = 0
    /\ indexing = FALSE
    /\ indexer_pc = "exited"
    /\ pending = {}
    /\ last_merge = EmptyMap
    /\ input = <<>> /\ read_pos = 0 /\ buf = <<>> /\ current_line = 0
    /\ temp_dir = "present"
    /\ current_buf = <<>> /\ mapper_pc = "done" /\ main_pc = "reduce"
    /\ queue = <<>>
    /\ workers = [w \in 1..options.workers |-> IdleReducer]
    /\ channel = <<>>
    /\ barrier = [arity |-> 0, arrived |-> 0]
    /\ map_calls = {} /\ submissions = <<>>
    /\ consumer_todo = ConsumerOutcome(db, files).sent
    /\ consumer_result = "running"
    /\ reductions = <<>>
    /\ tracker_keys = EmptyMap /\ tracker_parts = EmptyMap
    /\ result_table = EmptyMap /\ output = <<>>

\* main: `consumer.join().unwrap()?` returns the consumer's error, main
\* returns it and the process ends without printing
MainConsumerError ==
    /\ main_pc = "reduce"
    /\ consumer_result \notin {"running", Ok}
    /\ main_pc' = "failed"
    /\ UNCHANGED <<indexVars, input, temp_dir, read_pos, buf, current_line, current_buf,
                   mapper_pc, queue, workers, channel, barrier, map_calls,
                   submissions, reduceVars>>

NextReduceRemoved ==
    \/ NextReduce
    \/ MainConsumerError

\* the reduce phase over a temp directory that may have lost a part file
SpecReduceRemoved == InitReduceRemoved /\ [][NextReduceRemoved]_vars

----------------------------------------------------------------------------
(* main.rs: the whole run *)

\* the user's js files: with or without a map, with or without a reduce
UserCodes == [has_map : BOOLEAN, has_reduce : BOOLEAN]

\* Context::validate
validate(user_code) ==
    IF ~user_code.has_map
    THEN [ok |-> FALSE, error |-> "No map() function defined in the js file"]
    ELSE IF ~user_code.has_reduce
    THEN [ok |-> FALSE, error |-> "No reduce() function defined in the js file"]
    ELSE [ok |-> TRUE, error |-> ""]

\* a main that does not validate the user's code
MainValidate_unchecked ==
    /\ main_pc = "validate"
    /\ main_pc' = "create_temp_dir"
    /\ UNCHANGED <<indexVars, reduceVars, input, temp_dir, read_pos, buf,
                   current_line, current_buf, mapper_pc, queue, workers,
                   channel, barrier, map_calls, submissions>>

\* main: the test context is built and validated
MainValidate ==
    /\ main_pc = "validate"
    /\ main_pc' = IF validate(options.user_code).ok THEN "create_temp_dir"
                  ELSE "failed"
    /\ UNCHANGED <<indexVars, reduceVars, input, temp_dir, read_pos, buf,
                   current_line, current_buf, mapper_pc, queue, workers,
                   channel, barrier, map_calls, submissions>>

\* create_temp_dir: create_dir_all succeeds or fails
MainCreateTempDir ==
    /\ main_pc = "create_temp_dir"
    /\ \E created \in BOOLEAN :
          IF created
          THEN temp_dir' = "present" /\ main_pc' = "spawn_indexer"
          ELSE temp_dir' = temp_dir /\ main_pc' = "failed"
    /\ UNCHANGED <<indexVars, reduceVars, input, read_pos, buf, current_line,
                   current_buf, mapper_pc, queue, workers, channel, barrier,
                   map_calls, submissions>>

\* ThreadPool::new and spawn_indexer, then main enters map; Index::new may
\* fail to open the store
MainSpawnIndexer ==
    /\ main_pc = "spawn_indexer"
    /\ workers' = [w \in 1..options.workers |-> IdleWorker]
    /\ \E opened \in BOOLEAN :
          IF opened
          THEN indexer_pc' = "recv" /\ mapper_pc' = "read" /\ main_pc' = "map"
          ELSE main_pc' = "failed" /\ UNCHANGED <<indexer_pc, mapper_pc>>
    /\ UNCHANGED <<reduceVars, options, bucket_list, db, files, total_keys,
                   map_iterations, indexing, pending, batches, emitted,
                   last_merge, input, temp_dir, read_pos, buf, current_line,
                   current_buf, queue, channel, barrier, map_calls,
                   submissions>>

\* mapper.rs: read_line returns an error, map returns it and so does main
MapperReadError ==
    /\ main_pc = "map"
    /\ mapper_pc = "read"
    /\ mapper_pc' = "done"
    /\ main_pc' = "failed"
    /\ UNCHANGED <<reduceVars, indexVars, input, temp_dir, read_pos, buf,
                   current_line, current_buf, queue, workers, channel,
                   barrier, map_calls, submissions>>

\* a part file is removed from the temp directory behind the program's
\* back, before the consumer reaches it
PartFileRemoved ==
    /\ main_pc = "mapped"
    /\ files' \in FilesAfterRemoval(files) \ {files}
    /\ \A k \in DOMAIN db :
          \A p \in 0..(deserialize(db[k]).total_parts - 1) :
              <<deserialize(db[k]).encoded_key, p>> \in DOMAIN files
    /\ UNCHANGED <<reduceVars, pipeVars, options, bucket_list, db, total_keys,
                   map_iterations, indexing, indexer_pc, pending, batches,
                   emitted, last_merge>>

\* spawn_reducer and spawn_consumer; ResultTable::new may fail to open its
\* store
MainSpawnReducer ==
    /\ main_pc = "mapped"
    /\ \E opened \in BOOLEAN :
          IF opened
          THEN /\ workers' = [w \in 1..options.workers |-> IdleReducer]
               /\ consumer_todo' = ConsumerOutcome(db, files).sent
               /\ consumer_result' = "running"
               /\ main_pc' = "reduce"
          ELSE /\ main_pc' = "failed"
               /\ UNCHANGED <<workers, consumer_todo, consumer_result>>
    /\ UNCHANGED <<indexVars, input, temp_dir, read_pos, buf, current_line,
                   current_buf, mapper_pc, queue, channel, barrier, map_calls,
                   submissions, reductions, tracker_keys, tracker_parts,
                   result_table, output>>

\* print returns an error: stdout cannot be written
MainWriteError ==
    /\ main_pc = "reduce"
    /\ consumer_result = Ok
    /\ reductions = <<>>
    /\ PoolIdle
    /\ main_pc' = "failed"
    /\ UNCHANGED <<indexVars, reduceVars, input, temp_dir, read_pos, buf,
                   current_line, current_buf, mapper_pc, queue, workers,
                   channel, barrier, map_calls, submissions>>

\* remove_temp_dir: remove_dir_all succeeds or fails
MainRemoveTempDir ==
    /\ main_pc = "printed"
    /\ \E removed \in BOOLEAN :
          IF removed
          THEN temp_dir' = "removed" /\ main_pc' = "done"
          ELSE temp_dir' = temp_dir /\ main_pc' = "failed"
    /\ UNCHANGED <<indexVars, reduceVars, input, read_pos, buf, current_line,
                   current_buf, mapper_pc, queue, workers, channel, barrier,
                   map_calls, submissions>>

\* the inputs of the whole run: nothing, one line, two keys, and a key whose
\* values reach the flush size
MainInputs ==
    {<<>>,
     <<"a", "\n">>,
     <<"a", "\n", "b", "\n">>,
     <<"b", "\n", "b", "\n", "b">>}

\* main after CLIOptions::new
InitMain ==
    /\ options \in [index_every : PipeIndexEvery,
                    key_flush_size : PipeFlushSizes,
                    max_file_part_size : PipeMaxPartSizes,
                    workers : PoolSizes,
                    read_buffer_size : {2},
                    order : Orders,
                    user_code : UserCodes]
    /\ bucket_list = [b \in 0..(options.workers - 1) |-> EmptyMap]
    /\ db = EmptyMap
    /\ files = EmptyMap
    /\ total_keys = 0
    /\ map_iterations = 0
    /\ indexing = FALSE
    /\ indexer_pc = "unspawned"
    /\ pending = {}
    /\ batches = 0
    /\ emitted = [k \in Keys |-> <<>>]
    /\ last_merge = EmptyMap
    /\ input \in MainInputs
    /\ temp_dir = "absent"
    /\ read_pos = 0
    /\ buf = <<>>
    /\ current_line = 0
    /\ current_buf = <<>>
    /\ mapper_pc = "unstarted"
    /\ main_pc = "validate"
    /\ queue = <<>>
    /\ workers = <<>>
    /\ channel = <<>>
    /\ barrier = [arity |-> 0, arrived |-> 0]
    /\ map_calls = {}
    /\ submissions = <<>>
    /\ ReduceUnused

NextMain ==
    \/ MainValidate
    \/ MainCreateTempDir
    \/ MainSpawnIndexer
    \/ MapperReadError
    \/ NextPipe
    \/ PartFileRemoved
    \/ MainSpawnReducer
    \/ NextReduceRemoved
    \/ MainWriteError
    \/ MainRemoveTempDir

\* the whole run of main, with the failures main returns
SpecMain == InitMain /\ [][NextMain]_vars

----------------------------------------------------------------------------
(* Properties of the index: containers, part files, merges *)

StoredKeys == DOMAIN db

Stored(key) == deserialize(db[key])

\* every container the program holds: in a bucket or in the index
AllContainers ==
    UNION {{bucket_list[b][k] : k \in DOMAIN bucket_list[b]} :
              b \in DOMAIN bucket_list}
    \cup {Stored(k) : k \in StoredKeys}

PartPath(c, part) == <<c.encoded_key, part>>

PartFilesExist(c) ==
    \A p \in 0..(c.total_parts - 1) : PartPath(c, p) \in DOMAIN files

\* the lines the consumer reads from part p of container c
PartLines(c, p) == read_lines(files[PartPath(c, p)])

\* the values of one part file: every line parsed, in file order
PartValues(c, p) ==
    Concat([i \in 1..Len(PartLines(c, p)) |->
               from_json(PartLines(c, p)[i]).values])

\* what the reducer can consume for a key: all part-file batches from part
\* 0 upward, then the values left in memory
Consumable(key) ==
    Concat([i \in 1..Stored(key).total_parts |->
               PartValues(Stored(key), i - 1)])
    \o Stored(key).values

SameMultiset(xs, ys) ==
    /\ Len(xs) = Len(ys)
    /\ \A v \in Values : Count(v, xs) = Count(v, ys)

\* C1: once mapping and indexing have finished, for every key in the index
\* the part-file batches (part 0 upward, lines in file order) plus the
\* values left in memory are, as a multiset, exactly the values map emitted
\* for that key: nothing is lost or duplicated.
C1_ValuesPreserved ==
    indexer_pc = "done" =>
        \A key \in StoredKeys :
            /\ PartFilesExist(Stored(key))
            /\ \A p \in 0..(Stored(key).total_parts - 1) :
                  \A i \in 1..Len(PartLines(Stored(key), p)) :
                      from_json(PartLines(Stored(key), p)[i]).ok
            /\ SameMultiset(Consumable(key), emitted[key])

\* a finished run in which a key went through merges with stored data and
\* flushes into two parts, and still holds values in memory
C1_Witness ==
    /\ indexer_pc = "done"
    /\ \E key \in StoredKeys :
          /\ Stored(key).total_parts >= 2
          /\ Len(Stored(key).values) >= 1
          /\ Len(emitted[key]) >= 4

\* C6: for every container held in a bucket or stored in the index,
\* total_parts = len(lines_per_part); last_part_sequence + 1 = total_parts
\* when total_parts > 0; last_part_sequence = 0 and last_part_size = 0 when
\* total_parts = 0.
C6_PartMetadata ==
    \A c \in AllContainers :
        /\ c.total_parts = Len(c.lines_per_part)
        /\ c.total_parts > 0 => c.last_part_sequence + 1 = c.total_parts
        /\ c.total_parts = 0 =>
              c.last_part_sequence = 0 /\ c.last_part_size = 0

\* a container that was built by transfer_data from a stored container with
\* parts, then flushed into a further part
C6_Witness ==
    \E key \in DOMAIN last_merge :
        /\ last_merge[key].existed
        /\ last_merge[key].stored.total_parts >= 1
        /\ last_merge[key].flushed
        /\ last_merge[key].result.total_parts >= 2
        /\ last_merge[key].result.last_part_sequence >= 1

\* a step in which a dispatched merge ran
IsMergeStep == pending' # pending /\ pending' \subseteq pending

\* the part files of a key whose content differs after the step
ChangedFiles(key) ==
    {path \in DOMAIN files' :
        /\ path[1] = Base64(key)
        /\ path \in DOMAIN files => files'[path] # files[path]}

BytesBefore(path) == IF path \in DOMAIN files THEN files[path] ELSE <<>>

C7_LineCounts ==
    \A key \in StoredKeys :
        /\ PartFilesExist(Stored(key))
        /\ \A p \in 0..(Stored(key).total_parts - 1) :
              Len(PartLines(Stored(key), p)) = Stored(key).lines_per_part[p + 1]

C7_OneLinePerFlush ==
    /\ DOMAIN files \subseteq DOMAIN files'
    /\ \A key \in Keys :
          IF IsMergeStep /\ key \in DOMAIN last_merge' /\ last_merge'[key].flushed
          THEN \E path \in ChangedFiles(key) :
                  /\ ChangedFiles(key) = {path}
                  /\ files'[path] = BytesBefore(path) \o last_merge'[key].line
                  /\ Len(read_lines(last_merge'[key].line)) = 1
                  /\ last_merge'[key].line[Len(last_merge'[key].line)] = "\n"
          ELSE ChangedFiles(key) = {}

\* C7: for every key in the index and every part p of its container, part
\* file p holds exactly lines_per_part[p] lines; and every flush appends
\* exactly one line to exactly one part file of its key.
C7_PartLineCounts == [] C7_LineCounts /\ [][C7_OneLinePerFlush]_vars

\* a part file that holds two lines, one of them with an escaped line feed,
\* next to a later part of the same key
C7_Witness ==
    \E key \in StoredKeys :
        /\ Stored(key).total_parts >= 2
        /\ Stored(key).lines_per_part[1] = 2
        /\ \E i \in 1..Len(emitted[key]) : emitted[key][i] = <<"1", "\n">>

PartSize(c, p) == Len(files[PartPath(c, p)])

\* C8: a part file exceeds max_part_size only when it holds a single line;
\* a part of two or more lines is smaller than max_part_size; a flush
\* whose line length plus last_part_size reaches max_part_size goes to a
\* fresh part that holds just that line; last_part_size is the byte size of
\* the last part.
C8_PartSizes ==
    /\ \A key \in StoredKeys :
          /\ PartFilesExist(Stored(key))
          /\ \A p \in 0..(Stored(key).total_parts - 1) :
                /\ PartSize(Stored(key), p) > options.max_file_part_size
                       => Len(PartLines(Stored(key), p)) = 1
                /\ Len(PartLines(Stored(key), p)) >= 2
                       => PartSize(Stored(key), p) < options.max_file_part_size
          /\ Stored(key).last_part_size =
                IF Stored(key).total_parts > 0
                THEN PartSize(Stored(key), Stored(key).last_part_sequence)
                ELSE 0
    /\ \A key \in DOMAIN last_merge :
          (/\ last_merge[key].flushed
           /\ Len(last_merge[key].line) + last_merge[key].merged.last_part_size
                 >= options.max_file_part_size)
          => /\ last_merge[key].result.total_parts =
                    last_merge[key].merged.total_parts + 1
             /\ last_merge[key].merged.total_parts > 0 =>
                    last_merge[key].result.last_part_sequence =
                        last_merge[key].merged.last_part_sequence + 1
             /\ files[PartPath(last_merge[key].result,
                               last_merge[key].result.last_part_sequence)]
                    = last_merge[key].line

\* a flush into an existing part that hit the threshold exactly
\* (8 + 11 = 19) and rolled to a fresh part
C8_Witness ==
    \E key \in DOMAIN last_merge :
        /\ last_merge[key].flushed
        /\ last_merge[key].merged.total_parts > 0
        /\ Len(last_merge[key].line) + last_merge[key].merged.last_part_size
              = options.max_file_part_size
        /\ last_merge[key].result.total_parts = 2

\* a part of a single line that is longer than max_part_size
C8_WitnessOversize ==
    \E key \in StoredKeys :
        \E p \in 0..(Stored(key).total_parts - 1) :
            PartSize(Stored(key), p) > options.max_file_part_size

BucketBefore(b, k) ==
    IF k \in DOMAIN bucket_list[b] THEN bucket_list[b][k] ELSE new(k)

C9_ZeroAfterFlush ==
    \A key \in DOMAIN last_merge :
        last_merge[key].flushed =>
            /\ last_merge[key].result.buffered_size = 0
            /\ Stored(key).buffered_size = 0

\* the values add_value appended to the container of (b, k) in this step
Added(b, k) ==
    SubSeq(bucket_list'[b][k].values, Len(BucketBefore(b, k).values) + 1,
           Len(bucket_list'[b][k].values))

C9_StrictIncrease ==
    \A b \in DOMAIN bucket_list : \A k \in DOMAIN bucket_list'[b] :
        Len(bucket_list'[b][k].values) > Len(BucketBefore(b, k).values)
            => bucket_list'[b][k].buffered_size > BucketBefore(b, k).buffered_size

C9_IncreaseByLength ==
    \A b \in DOMAIN bucket_list : \A k \in DOMAIN bucket_list'[b] :
        /\ bucket_list'[b][k].values = BucketBefore(b, k).values \o Added(b, k)
        /\ bucket_list'[b][k].buffered_size =
               BucketBefore(b, k).buffered_size + TotalLen(Added(b, k))
        /\ (\E i \in 1..Len(Added(b, k)) : Added(b, k)[i] # <<>>)
               => bucket_list'[b][k].buffered_size
                      > BucketBefore(b, k).buffered_size

\* C9 as stated: buffered_size is zero right after every flush and every
\* add_value strictly increases it, whatever the value.
C9_Original == [] C9_ZeroAfterFlush /\ [][C9_StrictIncrease]_vars

\* C9 as amended: buffered_size is zero right after every flush, and every
\* add_value increases it by the byte length of the value: strictly for a
\* non-empty value, not at all for the empty string.
C9_FlushMonotonic == [] C9_ZeroAfterFlush /\ [][C9_IncreaseByLength]_vars

\* a bucket container that took an empty and a non-empty value, while a
\* flush of some key has just reset its container
C9_Witness ==
    /\ \E b \in DOMAIN bucket_list : \E k \in DOMAIN bucket_list[b] :
          /\ bucket_list[b][k].values = <<<<>>, <<"1", "\n">>>>
          /\ bucket_list[b][k].buffered_size = 2
    /\ \E key \in StoredKeys :
          Stored(key).total_parts > 0 /\ Stored(key).buffered_size = 0

MergedIsStoredMetadata(m) ==
    /\ m.merged.last_part_sequence = m.stored.last_part_sequence
    /\ m.merged.last_part_size = m.stored.last_part_size
    /\ m.merged.lines_per_part = m.stored.lines_per_part
    /\ m.merged.total_parts = m.stored.total_parts

\* C10 as stated: for a key the store already holds, the merged container's
\* values are the stored values followed by the newly arrived in-memory
\* values, with the part metadata of the stored container.
C10_Original ==
    \A key \in DOMAIN last_merge :
        last_merge[key].existed =>
            /\ last_merge[key].merged.values =
                   last_merge[key].stored.values \o last_merge[key].memory.values
            /\ MergedIsStoredMetadata(last_merge[key])

\* C10 as amended: the merged container's values are the newly arrived
\* in-memory values followed by the stored values (the stored ones come
\* last), with the part metadata of the stored container.
C10_MergedContainer ==
    \A key \in DOMAIN last_merge :
        last_merge[key].existed =>
            /\ last_merge[key].merged.values =
                   last_merge[key].memory.values \o last_merge[key].stored.values
            /\ last_merge[key].merged.buffered_size =
                   TotalLen(last_merge[key].memory.values)
                       + TotalLen(last_merge[key].stored.values)
            /\ MergedIsStoredMetadata(last_merge[key])

\* a merge of new in-memory values into a stored container that holds
\* other values in memory and has parts on disk
C10_Witness ==
    \E key \in DOMAIN last_merge :
        /\ last_merge[key].existed
        /\ last_merge[key].stored.values # <<>>
        /\ last_merge[key].memory.values # <<>>
        /\ last_merge[key].memory.values[1] # last_merge[key].stored.values[1]
        /\ last_merge[key].stored.total_parts > 0

----------------------------------------------------------------------------
(* Properties of the map phase: submissions and line numbers *)

\* C2: no map task is submitted to the pool while an indexing cycle is in
\* progress: every submission of the mapper, the leftover chunk after the
\* end of the input included, is made while the guard is lowered
C2_NoSubmissionWhileIndexing ==
    \A i \in DOMAIN submissions : ~submissions[i].indexing

\* the non-empty lines of the input with their 1-based positions
InputLines ==
    LET pieces == split_lines(input)
    IN  {[line |-> pieces[j], true_line_number |-> j]
            : j \in {j \in DOMAIN pieces : pieces[j] # <<>>}}

\* C5: every non-empty input line is passed to map with its true 1-based
\* line number as the key, also when its chunk holds empty lines: for the
\* stream "\na\n\nb\n" map sees a with 2 and b with 4
C5_TrueLineNumbers ==
    /\ \A c \in map_calls : c.key = IntToStr(c.true_line_number)
    /\ main_pc = "mapped" =>
          /\ {[line |-> c.line, true_line_number |-> c.true_line_number]
                 : c \in map_calls} = InputLines
          /\ input = ScenarioInput =>
                {<<c.key, c.line>> : c \in map_calls}
                    = {<<<<"2">>, <<"a">>>>, <<<<"4">>, <<"b">>>>}

----------------------------------------------------------------------------
(* Properties of the reduce phase: the ResultTable and the output *)

\* the keys map emitted at least one value for
EmittedKeys == {k \in DOMAIN emitted : emitted[k] # <<>>}

\* the sum of the integers map emitted for a key
EmittedSum(key) ==
    SumSeq([i \in 1..Len(emitted[key]) |-> ParseDigits(emitted[key][i], 0)])

NoTaskPanicked == \A w \in DOMAIN workers : workers[w].pc # "panicked"

\* C3: with an integer-sum reduce, the value stored in the ResultTable for a
\* key is the sum of all the values map emitted for that key, whatever the
\* flush points, parts, lines per part and the interleaving of the reduce
\* tasks; no task fails, and at the end every emitted key has its value
C3_SumOfEmitted ==
    /\ NoTaskPanicked
    /\ DOMAIN result_table \subseteq EmittedKeys
    /\ \A k \in DOMAIN result_table : result_table[k] = IntToStr(EmittedSum(k))
    /\ main_pc = "printed" => DOMAIN result_table = EmittedKeys

\* three flushes of key a: a part file of two lines and one of one line
C3_Witness ==
    /\ main_pc = "printed"
    /\ <<"a">> \in DOMAIN db
    /\ Stored(<<"a">>).lines_per_part = <<2, 1>>
    /\ emitted[<<"a">>] = <<<<"1", "2">>, <<"1", "2">>, <<"1", "2">>>>
    /\ result_table[<<"a">>] = <<"3", "6">>

\* a task that rereduces an empty list: its line results were merged by the
\* task of another part of the key
C3_EmptyRereduce ==
    \E w \in DOMAIN workers :
        workers[w].kind = "reduce" /\ workers[w].pc = "part"
            /\ workers[w].local = <<>>

\* the output cut into lines, each without its line feed
OutputLines ==
    LET lines == read_lines(output)
    IN  [i \in 1..Len(lines) |->
            IF lines[i][Len(lines[i])] = "\n"
            THEN SubSeq(lines[i], 1, Len(lines[i]) - 1) ELSE lines[i]]

\* the part of a line before its first tab (the whole line when it has none)
RECURSIVE LineKey(_)
LineKey(line) ==
    IF line = <<>> \/ Head(line) = "\t" THEN <<>>
    ELSE <<Head(line)>> \o LineKey(Tail(line))

HasTab(line) == \E i \in DOMAIN line : line[i] = "\t"

\* x comes strictly before y in the direction the option selects
InOrder(x, y) ==
    IF options.order = <<"d", "e", "s", "c">> THEN BytesLess(y, x)
    ELSE BytesLess(x, y)

\* one line per emitted key and no other line, strictly sorted by key
OneLinePerKey ==
    /\ Len(OutputLines) = Cardinality(EmittedKeys)
    /\ \A i \in DOMAIN OutputLines :
          HasTab(OutputLines[i]) /\ LineKey(OutputLines[i]) \in EmittedKeys
    /\ \A i, j \in DOMAIN OutputLines :
          i < j => InOrder(LineKey(OutputLines[i]), LineKey(OutputLines[j]))

KeyArrangements ==
    {o \in [1..Cardinality(EmittedKeys) -> EmittedKeys] :
        \A i, j \in DOMAIN o : i # j => o[i] # o[j]}

\* the output is the records key, tab, value, line feed of the arrangement
IsRecordsOf(o) ==
    output = Concat([i \in 1..Len(o) |->
                        o[i] \o <<"\t">> \o result_table[o[i]] \o <<"\n">>])

NoLineFeedInKeys ==
    \A k \in EmittedKeys : \A i \in DOMAIN k : k[i] # "\n"

----------------------------------------------------------------------------
(* Properties of the first-level reduce *)

\* the reduce tasks about to call reduce with rereduce = false
FirstLevelTasks ==
    {workers[w] : w \in {w \in DOMAIN workers :
                            workers[w].kind = "reduce" /\ workers[w].pc = "line"}}
    \cup {queue[i] : i \in DOMAIN queue}

\* the task's value is one line of the part file it names: what one flush
\* wrote
IsFlushedLine(t) ==
    /\ t.value.from = "file"
    /\ t.key \in DOMAIN db
    /\ t.part < Stored(t.key).total_parts
    /\ \E i \in DOMAIN PartLines(Stored(t.key), t.part) :
          PartLines(Stored(t.key), t.part)[i] = t.value.line

\* the task's value is what the index holds in memory for the key
IsIndexValues(t) ==
    /\ t.value.from = "index"
    /\ t.key \in DOMAIN db
    /\ t.value.values = Stored(t.key).values
    /\ t.value.values # <<>>

\* every map task behind SpecReduce sends one MapResult (ReduceBatches), so
\* values of one map task are at most one value
FromOneMapTask(values) == Len(values) <= 1

\* C11 as the specification states it: every reduce with rereduce = false
\* receives the values one flush produced, and all of them come from one
\* chunk of source lines (one map task)
C11_Original ==
    \A t \in FirstLevelTasks :
        IsFlushedLine(t) /\ FromOneMapTask(LineValues(t.value).values)

\* C11, amended: every reduce with rereduce = false receives either the
\* values of one line of a part file of the key (what one flush wrote) or
\* the values the index holds in memory for the key (no flush); the line
\* parses, and the batch is never empty
C11_FirstLevelBatches ==
    \A t \in FirstLevelTasks :
        /\ IsFlushedLine(t) \/ IsIndexValues(t)
        /\ LineValues(t.value).ok
        /\ LineValues(t.value).values # <<>>

\* a flushed line of key a that joins the values of two map tasks, in the
\* second part file of the key
C11_Witness ==
    \E t \in FirstLevelTasks :
        /\ IsFlushedLine(t)
        /\ t.key = <<"a">> /\ t.part = 1
        /\ LineValues(t.value).values = <<<<"1", "2">>, <<"1">>>>

----------------------------------------------------------------------------
(* Properties of the indexing cycle *)

\* a merge task of the cycle is still to run: queued, or taken and not yet
\* through Index::merge
MergeTasksLeft ==
    \/ \E i \in DOMAIN queue : queue[i].kind = "merge"
    \/ \E w \in DOMAIN workers :
          workers[w].kind = "merge" /\ workers[w].pc = "run"

\* the indexer waits at the barrier of the cycle and nobody is left who
\* could arrive: only the merge tasks of the cycle hold the barrier, so no
\* later step releases it
IndexerBlockedForever == indexer_pc = "waiting" /\ ~MergeTasksLeft

\* the mapper waits for a guard that stays raised
MapperBlockedForever ==
    mapper_pc = "wait" /\ indexing /\ IndexerBlockedForever

\* C12: when a merge task of an indexing cycle fails the run aborts: the
\* indexer is never left blocked for good at the barrier of the cycle, nor
\* the mapper in wait_while_indexing
C12_NoHangAfterMergeFailure ==
    ~IndexerBlockedForever /\ ~MapperBlockedForever

----------------------------------------------------------------------------
(* Properties of the consumer *)

\* the parts a container of the index names whose file is not on disk
MissingParts ==
    {kp \in UNION {{<<k, p>> : p \in 0..(Stored(k).total_parts - 1)} :
                      k \in DOMAIN db} :
        PartPath(Stored(kp[1]), kp[2]) \notin DOMAIN files}

\* Reduction r belongs to a missing part or to what the consumer would send
\* after it: the part's lines, the later parts of the key, the later keys
AtOrAfterMissing(r) ==
    \E kp \in MissingParts :
        \/ BytesLess(kp[1], r.key)
        \/ /\ r.key = kp[1]
           /\ r.type \in {"FileLineInit", "FileLine"}
           /\ r.part >= kp[2]

\* C13: when a part file a container names is missing as the consumer
\* reaches it, the consumer returns the error "Temp directory modified while
\* running", sends neither FileLineInit nor FileLine for the part and nothing
\* for later parts or keys, and main prints no output
C13_MissingPartStopsConsumer ==
    [][/\ Len(reductions') > Len(reductions)
          => ~AtOrAfterMissing(reductions'[Len(reductions')])
       /\ (MissingParts # {} /\ consumer_result' # consumer_result)
          => consumer_result' = TempDirModified
       /\ MissingParts # {} => output' = <<>> /\ main_pc' # "printed"]_vars

\* the second part file of a key is missing: the key and its first part
\* were announced, the consumer has returned the error and main has failed
\* with nothing printed
C13_Witness ==
    /\ \E kp \in MissingParts :
          /\ kp[2] = 1
          /\ kp[1] \in DOMAIN tracker_keys
          /\ kp[1] \in DOMAIN tracker_parts
    /\ consumer_result = TempDirModified
    /\ main_pc = "failed"
    /\ output = <<>>

----------------------------------------------------------------------------
(* Properties of the end of the map and index phase *)

\* a merge task of the last index is queued or running
FinalMergesLeft ==
    \/ \E i \in DOMAIN queue : queue[i].kind = "merge" /\ ~queue[i].cycle
    \/ \E w \in DOMAIN workers :
          workers[w].kind = "merge" /\ ~workers[w].cycle

BucketsEmpty == \A b \in DOMAIN bucket_list : bucket_list[b] = EmptyMap

\* C14 as stated: once the indexer thread has ended, no merge task of the
\* last index is queued or running
C14_Original == indexer_pc = "exited" => ~FinalMergesLeft

\* C14: once main's pool.join() after indexer.join() has returned, the
\* indexer thread has ended and every merge task of the last index has
\* finished: none is queued or running, no bucket awaits its merge and every
\* bucket is drained
C14_FinalMergesRetiredAtPoolJoin ==
    main_pc = "mapped"
    => /\ indexer_pc = "exited"
       /\ ~FinalMergesLeft
       /\ pending = {}
       /\ BucketsEmpty

\* the last index was the only one and it merged keys into the index
C14_Witness ==
    /\ main_pc = "mapped"
    /\ map_iterations > 0
    /\ map_iterations = batches
    /\ DOMAIN db # {}

----------------------------------------------------------------------------
(* Properties of the temp directory *)

\* the directory exists, or existed, only for validated user code
CreatedAfterValidation ==
    temp_dir # "absent" => validate(options.user_code).ok

\* the directory is gone only in a run that printed and ended well
RemovedOnlyOnSuccess ==
    temp_dir = "removed" => main_pc = "done"

\* a step that creates the directory is main's create_temp_dir, after
\* validation; a step that removes it is main's remove_temp_dir, after
\* print; a failed main leaves the directory as it is
TempDirSteps ==
    /\ (temp_dir = "absent" /\ temp_dir' = "present")
       => main_pc = "create_temp_dir"
    /\ temp_dir' = "removed" /\ temp_dir # "removed"
       => /\ main_pc = "printed"
          /\ output = write_results(result_table, options.order)
    /\ (main_pc = "failed" \/ main_pc' = "failed") => temp_dir' = temp_dir

\* C15: the temp directory is created only after the validation of the
\* user's code succeeded, is removed only after the results were printed in
\* a successful run, and is left in place by every failure after its
\* creation
C15_TempDirLifecycle ==
    /\ [](CreatedAfterValidation /\ RemovedOnlyOnSuccess)
    /\ [][TempDirSteps]_vars

\* a successful run: results printed, then the directory removed
C15_Witness ==
    /\ main_pc = "done"
    /\ temp_dir = "removed"
    /\ output # <<>>

\* a failed run after creation: the consumer found a part file missing and
\* the directory is still there
C15_WitnessFailure ==
    /\ main_pc = "failed"
    /\ consumer_result = TempDirModified
    /\ temp_dir = "present"

----------------------------------------------------------------------------
(* Properties of the stored form of a container *)

ContainerFields ==
    {"values", "buffered_size", "encoded_key", "last_part_size",
     "last_part_sequence", "lines_per_part", "total_parts"}

----------------------------------------------------------------------------
(* Properties of the hand-over from indexing to reducing *)

ConsumerStarted == consumer_result # "unspawned"

\* a map or merge task is queued or running
MapOrMergeTasksLeft ==
    \/ \E i \in DOMAIN queue : queue[i].kind \in {"map", "merge"}
    \/ \E w \in DOMAIN workers : workers[w].kind \in {"map", "merge"}

\* once the consumer has been spawned: the mapper has returned, every map
\* task it submitted has run and its batch has been received and combined,
\* the indexer thread has ended outside any cycle, no merge task is queued,
\* running or owed to a bucket, and every bucket is empty
IndexingOverWhenConsuming ==
    ConsumerStarted
    => /\ mapper_pc = "done"
       /\ ~MapOrMergeTasksLeft
       /\ channel = <<>>
       /\ batches = Len(submissions)
       /\ indexer_pc = "exited"
       /\ ~indexing
       /\ pending = {}
       /\ BucketsEmpty

\* no step taken once the consumer has been spawned writes to the index or
\* to a part file
NoWriteWhileConsuming ==
    ConsumerStarted => db' = db /\ files' = files

\* C17: when the consumer starts iterating the index every map task has
\* finished, every batch sent to the indexer has been combined, every merge
\* task of a cycle or of the last index has completed and all buckets are
\* empty; no merge writes to the index or a part file while the consumer
\* reads
C17_IndexingOverBeforeConsumer ==
    /\ []IndexingOverWhenConsuming
    /\ [][NoWriteWhileConsuming]_vars

\* the consumer is sending the Reductions of an index built by a cycle and
\* by a last index
C17_Witness ==
    /\ consumer_result = "running"
    /\ reductions # <<>>
    /\ consumer_todo # <<>>
    /\ batches = 3
    /\ options.index_every = 2
    /\ map_iterations = 1
    /\ DOMAIN files # {}

----------------------------------------------------------------------------
(* Properties of the guard and the barrier of a cycle *)

\* the merge tasks of a cycle still in the queue
QueuedCycleTasks ==
    {i \in DOMAIN queue : queue[i].kind = "merge" /\ queue[i].cycle}

\* the workers running a merge task of a cycle at one of the given points
CycleWorkers(pcs) ==
    {w \in DOMAIN workers :
        workers[w].kind = "merge" /\ workers[w].cycle /\ workers[w].pc \in pcs}

\* the buckets of the cycle's merge tasks that have not merged yet
UnmergedBuckets ==
    {queue[i].bucket : i \in QueuedCycleTasks}
    \cup {workers[w].bucket : w \in CycleWorkers({"run"})}

\* a merge task of a cycle exists only under a raised guard, until it has
\* been released from the barrier
GuardCoversCycle ==
    (QueuedCycleTasks # {} \/ CycleWorkers({"run", "barrier"}) # {})
    => indexing

\* the barrier is built for the non-empty buckets and the indexer
BarrierArity ==
    /\ indexer_pc \in {"start", "dispatch"}
       => barrier.arity = Cardinality(active_buckets(bucket_list)) + 1
    /\ indexer_pc \in {"barrier", "waiting"}
       => /\ barrier.arity
               = Cardinality(QueuedCycleTasks)
                 + Cardinality(CycleWorkers({"run", "barrier"})) + 1
          /\ barrier.arrived
               = Cardinality(CycleWorkers({"barrier"}))
                 + (IF indexer_pc = "waiting" THEN 1 ELSE 0)

\* between dispatch and release the unmerged tasks are one for each bucket
\* that is still non-empty
OneTaskPerBucket ==
    indexer_pc \in {"barrier", "waiting"}
    => /\ UnmergedBuckets = active_buckets(bucket_list)
       /\ Cardinality(QueuedCycleTasks) + Cardinality(CycleWorkers({"run"}))
            = Cardinality(active_buckets(bucket_list))

\* the step that dispatches finds the guard raised and no task of the cycle
\* yet; the step that lowers the guard finds every task of the cycle merged
\* and through the barrier
GuardSteps ==
    /\ (indexer_pc = "dispatch" /\ indexer_pc' = "barrier")
       => /\ indexing
          /\ QueuedCycleTasks = {} /\ CycleWorkers({"run", "barrier"}) = {}
          /\ Cardinality(QueuedCycleTasks') = barrier.arity - 1
    /\ (indexing /\ ~indexing')
       => /\ QueuedCycleTasks = {} /\ CycleWorkers({"run", "barrier"}) = {}
          /\ pending = {}
          /\ BucketsEmpty

\* C18: in every indexing cycle the guard is raised before the first merge
\* task of the cycle is dispatched and lowered only after every merge task
\* of the cycle has merged and arrived at the barrier; the barrier has arity
\* (number of non-empty buckets + 1) and exactly one merge task is
\* dispatched per non-empty bucket
C18_GuardAndBarrier ==
    /\ [](GuardCoversCycle /\ BarrierArity /\ OneTaskPerBucket)
    /\ [][GuardSteps]_vars

\* a cycle over two non-empty buckets: one merge task waits at the barrier
\* with the indexer, the other is still merging
C18_Witness ==
    /\ indexing
    /\ indexer_pc = "waiting"
    /\ barrier.arity = 3
    /\ barrier.arrived = 2
    /\ Cardinality(CycleWorkers({"barrier"})) = 1
    /\ Cardinality(CycleWorkers({"run"})) = 1

----------------------------------------------------------------------------
(* Properties of the start of a cycle *)

\* the counter holds the batches received since the last cycle: below
\* index_every while the indexer receives, index_every as the cycle starts,
\* 0 once the cycle has reset it
CounterOfBatches ==
    /\ batches % options.index_every = map_iterations % options.index_every
    /\ indexer_pc \in {"recv", "exited"} => map_iterations < options.index_every
    /\ indexer_pc = "start" => map_iterations = options.index_every
    /\ indexer_pc \in {"dispatch", "barrier", "waiting", "finish"}
       => map_iterations = 0

\* a received batch, empty or not, counts one; the cycle starts with the
\* batch that brings the counter to index_every and with no other step; the
\* cycle resets the counter
CycleStartSteps ==
    /\ batches' # batches
       => /\ batches' = batches + 1
          /\ Len(channel') = Len(channel) - 1
          /\ map_iterations' = map_iterations + 1
          /\ (indexer_pc' = "start") = (map_iterations' = options.index_every)
    /\ (indexer_pc' = "start" /\ indexer_pc # "start") => batches' # batches
    /\ (indexer_pc = "start" /\ indexer_pc' # "start")
       => indexer_pc' = "dispatch" /\ map_iterations' = 0

\* C20: the indexer starts a cycle exactly when the batches received since
\* the previous cycle, empty ones included, reach index_every, and resets
\* the counter to 0 in the cycle; exactly index_every batches are combined
\* between two cycles and no cycle starts with fewer
C20_CycleEveryIndexEvery ==
    /\ []CounterOfBatches
    /\ [][CycleStartSteps]_vars

\* a cycle of a run with index_every 2 starts on the second batch; one of
\* the two batches is empty, its map task having called map for no line
C20_Witness ==
    /\ indexer_pc = "start"
    /\ options.index_every = 2
    /\ batches = 2
    /\ map_iterations = 2
    /\ Len(submissions) = 2
    /\ Cardinality(map_calls) = 1
    /\ barrier.arity = 2

----------------------------------------------------------------------------
(* Progress of a cycle *)

AtBarrier(w) == w \in DOMAIN workers /\ workers[w].pc = "barrier"

\* a cycle is under way: the indexer is between the start of a cycle and
\* the lowering of the guard, or the guard is raised, or a merge task waits
\* at the barrier
CycleOpen ==
    \/ indexer_pc \in {"start", "dispatch", "barrier", "waiting", "finish"}
    \/ indexing
    \/ \E w \in DOMAIN workers : AtBarrier(w)

\* C19: every indexing cycle that starts ends: the merge tasks of the cycle
\* and the indexer pass the barrier, the guard is lowered, and a mapper
\* blocked in wait_while_indexing resumes, with a pool of `workers` threads
\* shared with the map tasks and as many partitions as workers
C19_CycleEnds ==
    /\ CycleOpen ~> ~CycleOpen
    /\ (mapper_pc = "wait") ~> (mapper_pc = "execute")
    /\ <>(main_pc = "mapped")

\* the only thread of the pool waits at the barrier of a cycle that the
\* indexer has not reached yet, a map task is queued behind it and the
\* mapper is blocked by the guard
C19_Witness ==
    /\ options.workers = 1
    /\ indexing
    /\ mapper_pc = "wait"
    /\ AtBarrier(1)
    /\ indexer_pc = "barrier"
    /\ \E i \in DOMAIN queue : queue[i].kind = "map"

----------------------------------------------------------------------------
(* Properties of the consumer's stream *)

\* the messages of the stream that carry the key, in stream order
KeyMessages(stream, key) == SelectSeq(stream, LAMBDA r : r.key = key)

\* the messages of a key are next to each other
Contiguous(stream, key) ==
    \A i, j, l \in DOMAIN stream :
        (i < j /\ j < l /\ stream[i].key = key /\ stream[l].key = key)
        => stream[j].key = key

\* the keys of the stream never go down in byte order
AscendingKeys(stream) ==
    \A i, j \in DOMAIN stream :
        i < j => (stream[i].key = stream[j].key
                  \/ BytesLess(stream[i].key, stream[j].key))

\* the number of groups the messages split into, each group one
\* FileLineInit(key, p, c) followed by exactly c FileLine(key, p, _), the
\* groups numbered p, p + 1, ...; -1 when they do not split that way
RECURSIVE GroupsFrom(_, _)
GroupsFrom(messages, p) ==
    IF messages = <<>> THEN 0
    ELSE LET init == Head(messages)
             c == init.count
         IN  IF \/ init.type # "FileLineInit"
                \/ init.part # p
                \/ Len(messages) < 1 + c
                \/ \E i \in 2..(1 + c) :
                      messages[i].type # "FileLine" \/ messages[i].part # p
             THEN -1
             ELSE LET rest == GroupsFrom(SubSeq(messages, c + 2, Len(messages)),
                                         p + 1)
                  IN  IF rest < 0 THEN -1 ELSE rest + 1

\* the number of groups the state of a container calls for
GroupsOfState(c) ==
    CASE state(c) = "IndexAndFile" -> c.total_parts + 1
      [] state(c) = "FileOnly" -> c.total_parts
      [] state(c) = "IndexOnly" -> 1
      [] OTHER -> 0

\* the messages of one key of the index within the stream
KeyStreamShape(stream, key) ==
    LET c == Stored(key)
        ms == KeyMessages(stream, key)
        n == GroupsOfState(c)
    IN  IF state(c) = "NoData" THEN ms = <<>>
        ELSE /\ Contiguous(stream, key)
             /\ Len(ms) >= 2
             /\ ms[1] = KeyInit(key, n)
             /\ ms[2] = FilePartInit(key)
             /\ GroupsFrom(SubSeq(ms, 3, Len(ms)), 0) = n
             /\ state(c) \in {"IndexAndFile", "IndexOnly"}
                => /\ ms[Len(ms) - 1] = FileLineInit(key, c.total_parts, 1)
                   /\ ms[Len(ms)] = FileLine(key, c.total_parts,
                                             FromIndex(c.values))

StreamShape(stream) ==
    /\ \A i \in DOMAIN stream : stream[i].key \in DOMAIN db
    /\ AscendingKeys(stream)
    /\ \A key \in DOMAIN db : KeyStreamShape(stream, key)

\* the consumer sends the next message of its stream, and nothing else
SendsInOrder ==
    consumer_todo' # consumer_todo
    => /\ consumer_todo' = Tail(consumer_todo)
       /\ reductions' = Append(reductions, Head(consumer_todo))

\* C21: for every key with data the consumer emits, contiguously and in
\* ascending key order, KeyInit(key, n), FilePartInit(key), then n groups of
\* one FileLineInit(key, p, c) and exactly c FileLine(key, p, _), with
\* n = total_parts + 1 for IndexAndFile (the last group being part
\* total_parts with the values in memory), total_parts for FileOnly and 1
\* for IndexOnly; a NoData container emits nothing
C21_ConsumerStreamShape ==
    /\ StreamShape(consumer_todo)
    /\ [][SendsInOrder]_vars

\* the consumer has sent its whole stream for an index of two keys, one of
\* them with a part file and values in memory
C21_Witness ==
    /\ consumer_todo = <<>>
    /\ consumer_result = Ok
    /\ Cardinality(DOMAIN db) = 2
    /\ \E k \in DOMAIN db :
          /\ state(Stored(k)) = "IndexAndFile"
          /\ Stored(k).total_parts = 1
          /\ k \in DOMAIN result_table

----------------------------------------------------------------------------
(* Properties of the Tracker's counting *)

\* the number of parts the consumer's KeyInit announces for a stored key
AnnouncedParts(key) ==
    KeyMessages(ConsumerStream(db, files), key)[1].count

\* the reduce tasks at work on a key
TasksOf(key) ==
    {w \in DOMAIN workers : workers[w].kind = "reduce" /\ workers[w].key = key}

\* the tasks of a key between the completion of their part and its
\* save_part_result
SecondLevelTasks(key) ==
    {w \in TasksOf(key) : workers[w].pc \in {"merge", "part"}}

\* the parts of a key whose lines are all reduced
CompletedParts(key) ==
    {p \in DOMAIN tracker_parts[key] : tracker_parts[key][p].remaining = 0}

\* per tracked key: the part results saved and the parts not yet reduced add
\* up to the announced number; every completed part has its second-level
\* reduce either done or under way in one task of its own
PartsAccounted ==
    \A key \in DOMAIN tracker_keys :
        /\ Len(tracker_keys[key].results) + tracker_keys[key].remaining
              = AnnouncedParts(key)
        /\ key \in DOMAIN tracker_parts
           => /\ Cardinality(CompletedParts(key))
                    = Len(tracker_keys[key].results)
                         + Cardinality(SecondLevelTasks(key))
              /\ \A w \in SecondLevelTasks(key) :
                    /\ workers[w].part \in CompletedParts(key)
                    /\ \A v \in SecondLevelTasks(key) :
                          v # w => workers[v].part # workers[w].part

\* a task goes on to the second level exactly when its save_line_result brings
\* its part's remaining lines from 1 to 0
SecondLevelTrigger ==
    \A w \in DOMAIN workers :
        (workers[w].kind = "reduce" /\ workers[w].pc = "line"
            /\ workers'[w] # workers[w])
        => LET t == workers[w]
           IN  /\ workers'[w].pc # "panicked"
               /\ workers'[w].pc = "merge"
                  <=> /\ tracker_parts[t.key][t.part].remaining = 1
                      /\ tracker_parts'[t.key][t.part].remaining = 0

\* every second-level reduce saves one part result, and part results are
\* saved by nothing else
SecondLevelSaves ==
    /\ \A w \in DOMAIN workers :
          (workers[w].kind = "reduce" /\ workers[w].pc = "part"
              /\ workers'[w] # workers[w])
          => LET t == workers[w]
             IN  /\ t.key \in DOMAIN tracker_keys
                 /\ t.key \in DOMAIN tracker_keys'
                 /\ tracker_keys'[t.key].results
                       = Append(tracker_keys[t.key].results,
                                run_reduce(t.key, t.local, TRUE))
    /\ \A key \in DOMAIN tracker_keys \cap DOMAIN tracker_keys' :
          tracker_keys'[key].results # tracker_keys[key].results
          => \E w \in TasksOf(key) :
                workers[w].pc = "part" /\ workers'[w] # workers[w]

\* the third level runs for a key that has no result yet, with the announced
\* number of part results, and the ResultTable changes by nothing else
ThirdLevelOnce ==
    /\ \A w \in DOMAIN workers :
          (workers[w].kind = "reduce" /\ workers[w].pc = "key"
              /\ workers'[w] # workers[w])
          => LET t == workers[w]
             IN  /\ t.key \notin DOMAIN result_table
                 /\ Len(t.local) = AnnouncedParts(t.key)
                 /\ result_table'
                       = ResultTable_add(result_table, t.key,
                                         run_reduce(t.key, t.local, TRUE))
    /\ result_table' # result_table
       => \E w \in DOMAIN workers :
             workers[w].kind = "reduce" /\ workers[w].pc = "key"
                /\ workers'[w] # workers[w]

\* at the end every announced key has been through the third level and the
\* Tracker is empty
AllKeysReduced ==
    main_pc = "printed"
    => /\ DOMAIN result_table = {k \in DOMAIN db : state(Stored(k)) # "NoData"}
       /\ tracker_keys = EmptyMap
       /\ tracker_parts = EmptyMap

TrackerSteps == SecondLevelTrigger /\ SecondLevelSaves /\ ThirdLevelOnce

\* C22: for every key announced by KeyInit(key, n), in every interleaving of
\* the reduce tasks, the second-level reduce runs exactly n times, once per
\* completed part and started by the task that brings that part's remaining
\* lines to 0; the third-level reduce runs exactly once, with exactly n part
\* results, and ResultTable.add is called exactly once
C22_ReduceCounts ==
    /\ [](PartsAccounted /\ AllKeysReduced)
    /\ [][TrackerSteps]_vars

\* the run has ended with the result of a key announced with two parts, a
\* part file and the values in memory
C22_Witness ==
    \E k \in DOMAIN result_table :
        /\ AnnouncedParts(k) = 2
        /\ k \notin DOMAIN tracker_keys
        /\ main_pc = "printed"

----------------------------------------------------------------------------
(* Properties of the line results *)

\* the line results the Tracker holds for a key, part after part
RECURSIVE ResultsOfParts(_, _)
ResultsOfParts(entry, todo) ==
    IF todo = {} THEN <<>>
    ELSE LET p == CHOOSE p \in todo : \A q \in todo : p <= q
         IN  entry[p].results \o ResultsOfParts(entry, todo \ {p})

LineResults(partsv, key) ==
    IF key \in DOMAIN partsv
    THEN ResultsOfParts(partsv[key], DOMAIN partsv[key])
    ELSE <<>>

\* the lines of a part of a stored key: those of its part file, or the one
\* line of values in memory
LinesOfPart(key, part) ==
    IF part < Stored(key).total_parts
    THEN Stored(key).lines_per_part[part + 1]
    ELSE 1

\* two lists with the same elements, each as many times
SameElements(xs, ys) ==
    /\ Len(xs) = Len(ys)
    /\ \A i \in DOMAIN xs : Count(xs[i], xs) = Count(xs[i], ys)

\* the task w takes a step of its own
TaskStep(w, pc) ==
    workers[w].kind = "reduce" /\ workers[w].pc = pc /\ workers'[w] # workers[w]

\* a first-level reduce puts its result, and nothing else, with the line
\* results of its key
FirstLevelSaved ==
    \A w \in DOMAIN workers :
        TaskStep(w, "line")
        => LET t == workers[w]
           IN  LineResults(tracker_parts', t.key)
                  = LineResults(
                       [tracker_parts EXCEPT ![t.key][t.part].results =
                           Append(@, run_reduce(t.key, LineValues(t.value).values,
                                                FALSE))],
                       t.key)

\* merge_line_results moves every line result of the key, whatever its part,
\* into the list of the merging task, and leaves none behind
MergeMovesAll ==
    \A w \in DOMAIN workers :
        TaskStep(w, "merge")
        => LET t == workers[w]
           IN  /\ workers'[w].pc = "part"
               /\ SameElements(workers'[w].local,
                               LineResults(tracker_parts, t.key))
               /\ LineResults(tracker_parts', t.key) = <<>>

\* the list a task merged is the input of its second-level reduce
MergedIsReduced ==
    \A w \in DOMAIN workers :
        TaskStep(w, "part")
        => LET t == workers[w]
           IN  /\ t.key \in DOMAIN tracker_keys'
               /\ tracker_keys'[t.key].results
                     = Append(tracker_keys[t.key].results,
                              run_reduce(t.key, t.local, TRUE))

\* line results change by a first-level save or a merge of their key only:
\* a new part does not touch those of the other parts, and when the key is
\* cleaned none is left
NothingDropped ==
    \A key \in DOMAIN tracker_parts :
        LineResults(tracker_parts', key) # LineResults(tracker_parts, key)
        => \E w \in TasksOf(key) : TaskStep(w, "line") \/ TaskStep(w, "merge")

LineResultSteps ==
    FirstLevelSaved /\ MergeMovesAll /\ MergedIsReduced /\ NothingDropped

\* a merged list waits, unchanged, in the task that will reduce it: a task
\* holds a list between merge and second-level reduce only
ListsHeldByTasks ==
    \A w \in DOMAIN workers :
        (workers[w].kind = "reduce" /\ workers[w].pc \in {"line", "merge"})
        => workers[w].local = <<>>

\* C23: every first-level reduce result becomes part of the input list of
\* exactly one second-level reduce for its key, never dropped and never used
\* twice, also when parts complete concurrently and merge_line_results
\* drains the line results of parts that are not yet complete
C23_LineResultsUsedOnce ==
    /\ []ListsHeldByTasks
    /\ [][LineResultSteps]_vars

\* a task is about to rereduce more results than its part has lines: it
\* drained a line result of another part, which still has a line to reduce
C23_Witness ==
    \E w \in DOMAIN workers :
        /\ workers[w].kind = "reduce"
        /\ workers[w].pc = "part"
        /\ Len(workers[w].local) > LinesOfPart(workers[w].key, workers[w].part)
        /\ \E q \in DOMAIN tracker_parts[workers[w].key] :
              /\ q # workers[w].part
              /\ tracker_parts[workers[w].key][q].remaining > 0
              /\ LinesOfPart(workers[w].key, q) = 2

----------------------------------------------------------------------------
(* Properties of the inputs of reduce *)

Range(xs) == {xs[i] : i \in DOMAIN xs}

\* the value lists the index holds for a key: one per line of each part
\* file, and the values left in memory
RawLists(key) ==
    LET c == Stored(key)
    IN  UNION {{from_json(PartLines(c, p)[i]).values :
                   i \in DOMAIN PartLines(c, p)} : p \in 0..(c.total_parts - 1)}
        \cup (IF c.values # <<>> THEN {c.values} ELSE {})

\* the input of a first-level reduce (rereduce = false) is one line of the
\* task's part file, or the values in memory of the task's container, and
\* holds values map emitted for the key only
FirstLevelRaw ==
    \A w \in DOMAIN workers :
        (workers[w].kind = "reduce" /\ workers[w].pc = "line")
        => LET t == workers[w]
               c == Stored(t.key)
               input_values == LineValues(t.value).values
           IN  /\ t.key \in DOMAIN db
               /\ IF t.value.from = "file"
                  THEN /\ t.part < c.total_parts
                       /\ t.value.line \in Range(PartLines(c, t.part))
                  ELSE /\ t.part = c.total_parts
                       /\ input_values = c.values
               /\ input_values \in RawLists(t.key)
               /\ Range(input_values) \subseteq Range(emitted[t.key])

\* what the first-level reduces of a key can return
FirstLevelOutputs(key) ==
    {run_reduce(key, l, FALSE) : l \in RawLists(key)}

\* the lists of at most n elements of a set
ListsOver(S, n) == UNION {[1..m -> S] : m \in 0..n}

\* what the second-level reduces of a key can return
SecondLevelOutputs(key) ==
    {run_reduce(key, l, TRUE) :
        l \in ListsOver(FirstLevelOutputs(key),
                        SumSeq(Stored(key).lines_per_part) + 1)}

\* the lists that reach a reduce with rereduce = true hold results of the
\* level below, of the same key: line results for the second level, part
\* results for the third
RereduceOfOutputs ==
    /\ \A key \in DOMAIN tracker_parts :
          Range(LineResults(tracker_parts, key)) \subseteq FirstLevelOutputs(key)
    /\ \A key \in DOMAIN tracker_keys :
          Range(tracker_keys[key].results) \subseteq SecondLevelOutputs(key)
    /\ \A w \in DOMAIN workers :
          /\ (workers[w].kind = "reduce" /\ workers[w].pc = "part")
             => Range(workers[w].local) \subseteq FirstLevelOutputs(workers[w].key)
          /\ (workers[w].kind = "reduce" /\ workers[w].pc = "key")
             => Range(workers[w].local) \subseteq SecondLevelOutputs(workers[w].key)

\* where the lists come from: a merged list is made of line results the
\* Tracker held for the task's key, the list of the third level is the part
\* results the Tracker held for it
RereduceFlow ==
    \A w \in DOMAIN workers :
        /\ TaskStep(w, "merge")
           => Range(workers'[w].local)
                 \subseteq Range(LineResults(tracker_parts, workers[w].key))
        /\ TaskStep(w, "clean_keys")
           => /\ workers'[w].pc = "key"
              /\ workers'[w].local = tracker_keys[workers[w].key].results

\* C24: a reduce called with rereduce = false receives raw map values only
\* (one line of a part file, or the values one container has in memory); a
\* reduce called with rereduce = true receives only results of earlier
\* reduce calls for the same key
C24_ReduceInputs ==
    /\ [](FirstLevelRaw /\ RereduceOfOutputs)
    /\ [][RereduceFlow]_vars

\* a third-level reduce is about to run on two part results, of a part file
\* and of the values in memory, while a first-level task of another key is
\* about to run on a line
C24_Witness ==
    \E w, v \in DOMAIN workers :
        /\ workers[w].kind = "reduce" /\ workers[w].pc = "key"
        /\ Len(workers[w].local) = 2
        /\ state(Stored(workers[w].key)) = "IndexAndFile"
        /\ workers[v].kind = "reduce" /\ workers[v].pc = "line"
        /\ workers[v].key # workers[w].key

----------------------------------------------------------------------------
(* Properties of the lists given to reduce *)

\* the list a task is about to hand to reduce, at any of the three levels
NextReduceInput(w) ==
    IF workers[w].pc = "line" THEN LineValues(workers[w].value).values
    ELSE workers[w].local

\* C29: no reduce call, at any of the three levels, receives an empty list
\* of values, in every interleaving of the reduce tasks, two parts of one
\* key completing at the same time included
C29_NoEmptyReduceInput ==
    \A w \in DOMAIN workers :
        (workers[w].kind = "reduce" /\ workers[w].pc \in {"line", "part", "key"})
        => NextReduceInput(w) # <<>>

----------------------------------------------------------------------------
(* Properties of a failing merge *)

\* the merge of the step returned Err at one of its keys
MergeFailed == \E k \in DOMAIN last_merge' : ~last_merge'[k].ok

\* the bucket the merge of the step drained
MergedBucket == bucket_list[CHOOSE b \in pending : b \notin pending']

IsPrefix(xs, ys) == Len(xs) <= Len(ys) /\ xs = SubSeq(ys, 1, Len(xs))

\* the store is as it was; the lines appended for the keys before the failing
\* one are in their part files, and no part file has lost a byte
NothingWrittenOnFailure ==
    /\ db' = db
    /\ \A k \in DOMAIN last_merge' :
          (last_merge'[k].ok /\ last_merge'[k].flushed)
          => \E path \in ChangedFiles(k) :
                files'[path] = BytesBefore(path) \o last_merge'[k].line
    /\ \A path \in DOMAIN files :
          path \in DOMAIN files' /\ IsPrefix(files[path], files'[path])

\* every container of the bucket is in the store after the step, the other
\* entries of the store are as they were
AllWrittenOnSuccess ==
    /\ DOMAIN db' = DOMAIN db \cup DOMAIN MergedBucket
    /\ \A k \in DOMAIN MergedBucket :
          /\ k \in DOMAIN last_merge'
          /\ db'[k] = serialize(last_merge'[k].result)
          /\ k \in DOMAIN db => db'[k] # db[k]
    /\ \A k \in DOMAIN db \ DOMAIN MergedBucket : db'[k] = db[k]

MergeOutcome ==
    IsMergeStep
    => IF MergeFailed THEN NothingWrittenOnFailure ELSE AllWrittenOnSuccess

\* C25: when Index::merge fails at some key of a bucket (on get, in
\* flush_to_file_part or on serialize), that merge writes no container of
\* the bucket to the KV store, while the part-file lines it appended for the
\* keys before remain; when it succeeds, all containers of the bucket are
\* written in one batch
C25_MergeAllOrNothing == [][MergeOutcome]_vars

\* a merge has failed at its second key after it flushed the first: the line
\* is in the part file, the store does not hold the key
C25_Witness ==
    /\ indexer_pc = "failed"
    /\ \E k, f \in DOMAIN last_merge :
          /\ ~last_merge[f].ok
          /\ last_merge[k].ok
          /\ last_merge[k].flushed
          /\ k \notin DOMAIN db
          /\ PartPath(last_merge[k].result, 0) \in DOMAIN files

\* a successful merge has written a bucket of two keys
C25_WitnessSuccess ==
    /\ indexer_pc # "failed"
    /\ Cardinality(DOMAIN last_merge) = 2
    /\ DOMAIN last_merge \subseteq DOMAIN db

----------------------------------------------------------------------------
(* Properties of the combiner's buckets *)

\* the bucket of a key: its hash modulo the number of partitions
BucketOf(key) == calculate_hash(key) % options.workers

\* a key is held by its own bucket only
KeysInOwnBucket ==
    \A b \in DOMAIN bucket_list : \A k \in DOMAIN bucket_list[b] :
        b = BucketOf(k)

IsSuffix(xs, ys) ==
    Len(xs) <= Len(ys) /\ xs = SubSeq(ys, Len(ys) - Len(xs) + 1, Len(ys))

\* a container of a bucket holds values, and they are the last the indexer
\* received for its key
HoldsLatestValues ==
    \A b \in DOMAIN bucket_list : \A k \in DOMAIN bucket_list[b] :
        /\ bucket_list[b][k].values # <<>>
        /\ IsSuffix(bucket_list[b][k].values, emitted[k])

\* the values the indexer receives for a key in this step, in arrival order
ReceivedInStep(k) ==
    SubSeq(emitted'[k], Len(emitted[k]) + 1, Len(emitted'[k]))

\* the merge of this step drains the bucket
DrainedInStep(b) == b \in pending /\ b \notin pending'

\* step by step: a drained bucket holds nothing; otherwise the values
\* received for a key are appended, in arrival order, to those its container
\* held, a key without new values is left as it was
SinceLastDrain ==
    \A k \in Keys :
        LET b == BucketOf(k)
        IN  IF DrainedInStep(b) THEN bucket_list'[b] = EmptyMap
            ELSE IF ReceivedInStep(k) = <<>>
            THEN /\ k \in DOMAIN bucket_list'[b] <=> k \in DOMAIN bucket_list[b]
                 /\ k \in DOMAIN bucket_list[b]
                    => bucket_list'[b][k] = bucket_list[b][k]
            ELSE /\ k \in DOMAIN bucket_list'[b]
                 /\ bucket_list'[b][k].values
                       = BucketBefore(b, k).values \o ReceivedInStep(k)

\* C26: after the combiner took any sequence of batches, every key is in at
\* most one bucket, the bucket hash(key) mod P, and its container holds
\* exactly the values received for the key since that bucket was last
\* drained, in arrival order
C26_CombinerBuckets ==
    /\ [](KeysInOwnBucket /\ HoldsLatestValues)
    /\ [][SinceLastDrain]_vars

\* a key the index already holds has two values in its bucket, received in
\* this order after the drain
C26_Witness ==
    \E k \in Keys :
        /\ options.workers = 2
        /\ k \in DOMAIN db
        /\ k \in DOMAIN bucket_list[BucketOf(k)]
        /\ bucket_list[BucketOf(k)][k].values = <<<<"1", "\n">>, <<>>>>
        /\ Len(emitted[k]) = 3

----------------------------------------------------------------------------
(* Properties of the containers *)

\* buffered_size is the number of bytes of the values held in memory
SizeIsBytesInMemory ==
    \A c \in AllContainers : c.buffered_size = TotalLen(c.values)

\* a stored container has a value in memory or in a part file
NoStoredNoData ==
    \A key \in StoredKeys :
        /\ state(Stored(key)) # "NoData"
        /\ Stored(key).values # <<>> \/ Stored(key).total_parts >= 1

\* C27: for every container, in a bucket or in the index, buffered_size is
\* the sum of the byte lengths of its values in memory; a container is
\* stored only if it holds at least one value, in memory or in a part file
C27_ContainerSizes == SizeIsBytesInMemory /\ NoStoredNoData

\* a stored container with a part file and two values in memory, one of them
\* the empty string
C27_Witness ==
    \E key \in StoredKeys :
        /\ Stored(key).total_parts = 1
        /\ Len(Stored(key).values) = 2
        /\ Stored(key).buffered_size = 2

----------------------------------------------------------------------------
(* Properties of the mapper's chunks *)

\* the bytes the mapper has read and not yet submitted
Held == current_buf \o buf

\* the number of input bytes submitted so far
SubmittedPos == read_pos - Len(Held)

\* a position of the input where a line ends
IsLineBoundary(pos) ==
    pos = 0 \/ pos = Len(input) \/ (pos \in DOMAIN input /\ input[pos] = "\n")

\* the number of lines read_line yields for the bytes
LinesIn(bytes) ==
    Cardinality({i \in DOMAIN bytes : bytes[i] = "\n"})
    + (IF bytes # <<>> /\ bytes[Len(bytes)] # "\n" THEN 1 ELSE 0)

\* the bytes before the last line of a chunk
BeforeLastLine(chunk) ==
    LET ends == {i \in 1..(Len(chunk) - 1) : chunk[i] = "\n"}
    IN  IF ends = {} THEN <<>>
        ELSE SubSeq(chunk, 1, CHOOSE i \in ends : \A j \in ends : j <= i)

\* what is held is the input between the submitted and the read position,
\* both at the end of a line; a chunk waiting for submission has just reached
\* read_buffer_size, the buffer of the loop is below it
HeldIsNextInput ==
    /\ 0 <= SubmittedPos /\ read_pos <= Len(input)
    /\ Held = SubSeq(input, SubmittedPos + 1, read_pos)
    /\ IsLineBoundary(SubmittedPos) /\ IsLineBoundary(read_pos)
    /\ current_line = LinesIn(SubSeq(input, 1, read_pos))
    /\ mapper_pc \in {"read", "leftovers"}
       => current_buf = <<>> /\ Len(buf) < options.read_buffer_size
    /\ mapper_pc \in {"wait", "execute"}
       => /\ buf = <<>>
          /\ Len(current_buf) >= options.read_buffer_size
          /\ Len(BeforeLastLine(current_buf)) < options.read_buffer_size

\* when map has returned the whole input has been submitted
AllSubmittedAtEnd ==
    mapper_pc = "done" => SubmittedPos = Len(input) /\ read_pos = Len(input)

\* the map task the step has put on the queue of the pool
SubmittedTask == queue'[Len(queue')]

\* a submission hands over the next bytes of the input, whole lines of it,
\* with the number of its last line; the leftovers are the non-empty rest of
\* the input, numbered with the total of lines; nothing else moves the
\* submitted position
ChunkSubmission ==
    /\ submissions' # submissions
       => /\ Len(submissions') = Len(submissions) + 1
          /\ queue' = Append(queue, SubmittedTask)
          /\ SubmittedTask.kind = "map"
          /\ SubmittedTask.chunk # <<>>
          /\ SubmittedTask.chunk = SubSeq(input, SubmittedPos + 1, SubmittedPos')
          /\ IsLineBoundary(SubmittedPos')
          /\ SubmittedTask.line_number = LinesIn(SubSeq(input, 1, SubmittedPos'))
          /\ IF submissions'[Len(submissions')].leftovers
             THEN /\ SubmittedPos' = Len(input)
                  /\ SubmittedTask.line_number = LinesIn(input)
                  /\ Len(SubmittedTask.chunk) < options.read_buffer_size
             ELSE /\ Len(SubmittedTask.chunk) >= options.read_buffer_size
                  /\ Len(BeforeLastLine(SubmittedTask.chunk))
                        < options.read_buffer_size
    /\ SubmittedPos' # SubmittedPos => submissions' # submissions
    /\ (mapper_pc = "read" /\ mapper_pc' = "leftovers") => read_pos = Len(input)

\* C28: the mapper submits every line of the input in exactly one chunk; the
\* chunks cover the input in order and end at line boundaries; a chunk is
\* submitted as soon as the buffer reaches read_buffer_size; after the end
\* of the input a non-empty rest is submitted as one last chunk, whose
\* ending line number is the total number of lines read
C28_ChunksCoverInput ==
    /\ [](HeldIsNextInput /\ AllSubmittedAtEnd)
    /\ [][ChunkSubmission]_vars

\* map has returned after a chunk of two lines that filled the buffer and a
\* last chunk with the rest, a line without line feed
C28_Witness ==
    /\ mapper_pc = "done"
    /\ Len(submissions) = 2
    /\ submissions[1].line_number = 2 /\ ~submissions[1].leftovers
    /\ submissions[2].line_number = 3 /\ submissions[2].leftovers
    /\ input[Len(input)] # "\n"

----------------------------------------------------------------------------
(* Properties of the access to the buckets *)

\* the merge tasks of a bucket that were dispatched and have not yet merged:
\* waiting in the queue of the pool, or taken by a worker
QueuedMerges(b) ==
    {i \in DOMAIN queue : queue[i].kind = "merge" /\ queue[i].bucket = b}

RunningMerges(b) ==
    {w \in DOMAIN workers :
        workers[w].kind = "merge" /\ workers[w].pc = "run"
           /\ workers[w].bucket = b}

UnfinishedMerges(b) == Cardinality(QueuedMerges(b)) + Cardinality(RunningMerges(b))

\* at most one merge task per bucket is under way, and it is the one the
\* indexer counts as pending
OneMergePerBucket ==
    \A b \in DOMAIN bucket_list :
        /\ UnfinishedMerges(b) <= 1
        /\ UnfinishedMerges(b) = 1 <=> b \in pending

\* the combiner has put a value into the bucket in this step
CombinedInto(b) ==
    \E k \in DOMAIN bucket_list'[b] :
        \/ k \notin DOMAIN bucket_list[b]
        \/ Len(bucket_list'[b][k].values) > Len(bucket_list[b][k].values)

\* the combiner inserts into a bucket only when no merge of it is pending or
\* running; a merge changes no bucket but its own
NoCombineDuringMerge ==
    \A b \in DOMAIN bucket_list :
        /\ CombinedInto(b) => UnfinishedMerges(b) = 0 /\ b \notin pending
        /\ bucket_list'[b] # bucket_list[b] /\ ~CombinedInto(b)
           => /\ \E w \in RunningMerges(b) : workers'[w] # workers[w]
              /\ bucket_list'[b] = EmptyMap

\* C30: a bucket is never accessed by two activities at once: no two merge
\* tasks work on the same bucket at the same time, and the combiner never
\* inserts into a bucket while a merge of that bucket is pending or running
C30_BucketExclusive ==
    /\ []OneMergePerBucket
    /\ [][NoCombineDuringMerge]_vars

\* in a second cycle the merges of both buckets are under way at once, after
\* the combiner filled the buckets the first cycle had drained
C30_Witness ==
    /\ db # EmptyMap
    /\ indexing
    /\ \A b \in DOMAIN bucket_list :
          UnfinishedMerges(b) = 1 /\ bucket_list[b] # EmptyMap

----------------------------------------------------------------------------
(* Properties of the Tracker's lookups and mutexes *)

\* the reduce tasks that have not yet saved their line result: in the queue
\* of the pool, or taken by a worker
WaitingLineTasks ==
    {queue[i] : i \in {j \in DOMAIN queue : queue[j].kind = "reduce"}}
    \cup {workers[w] : w \in {v \in DOMAIN workers :
                                 workers[v].kind = "reduce"
                                    /\ workers[v].pc = "line"}}

\* KeyInit, FilePartInit and FileLineInit of its key and part were applied
\* before a FileLine task runs, and its part still waits for a line
InitsApplied ==
    \A t \in WaitingLineTasks :
        /\ t.key \in DOMAIN tracker_keys
        /\ t.key \in DOMAIN tracker_parts
        /\ t.part \in DOMAIN tracker_parts[t.key]
        /\ tracker_parts[t.key][t.part].remaining >= 1

\* the tasks that took the entries of a key out of the Tracker, or are
\* doing so
Cleaners(key) ==
    {w \in TasksOf(key) : workers[w].pc \in {"clean_keys", "key"}}

\* every task finds the entries it is about to look up, and once a task has
\* begun to remove the entries of a key no other task of the key is left
LookupsSucceed ==
    /\ NoTaskPanicked
    /\ \A w \in DOMAIN workers :
          workers[w].kind = "reduce"
          => LET t == workers[w]
             IN  /\ t.pc \in {"merge", "clean"} => t.key \in DOMAIN tracker_parts
                 /\ t.pc \in {"merge", "part", "clean", "clean_keys"}
                    => t.key \in DOMAIN tracker_keys
                 /\ t.pc \in {"clean_keys", "key"}
                    => /\ t.key \notin DOMAIN tracker_parts
                       /\ TasksOf(t.key) = {w}
                       /\ \A u \in WaitingLineTasks : u.key # t.key
                 /\ t.pc = "key" => t.key \notin DOMAIN tracker_keys
    /\ \A key \in DOMAIN result_table :
          /\ key \notin DOMAIN tracker_keys /\ key \notin DOMAIN tracker_parts
          /\ TasksOf(key) = {}
          /\ \A u \in WaitingLineTasks : u.key # key

\* one task at most holds the mutex of Tracker.parts, and the task that
\* holds it can take the mutex of Tracker.keys
HolderProceeds ==
    /\ Cardinality({w \in DOMAIN workers : workers[w].kind = "reduce"
                                              /\ workers[w].pc = "clean_keys"}) <= 1
    /\ \A w \in DOMAIN workers :
          (workers[w].kind = "reduce" /\ workers[w].pc = "clean_keys")
          => ENABLED ReduceCleanKeys(w)

\* the consumer has finished and all tasks have retired: the Tracker is empty
TrackerEmptyAtEnd ==
    (consumer_todo = <<>> /\ reductions = <<>> /\ PoolIdle)
    => tracker_keys = EmptyMap /\ tracker_parts = EmptyMap

\* Tracker.parts changes only while its mutex is free
PartsLockRespected == tracker_parts' # tracker_parts => PartsLockFree

\* C31: every Tracker lookup of a reduce task succeeds and the reduction
\* ends cleanly: a FileLine task of (key, part) runs only after KeyInit,
\* FilePartInit and FileLineInit of that key and part were applied, no task
\* touches parts[key] or keys[key] after get_and_clean_key_results removed
\* them, the two mutexes of the Tracker never deadlock, and when the
\* consumer has finished and all tasks have retired both maps are empty
C31_TrackerLookups ==
    /\ [](InitsApplied /\ LookupsSucceed /\ HolderProceeds /\ TrackerEmptyAtEnd)
    /\ [][PartsLockRespected]_vars
    /\ <>(main_pc = "printed")

\* a task holds the mutex of Tracker.parts and is about to take the one of
\* Tracker.keys, while the reducer has a FilePartInit of the next key to
\* apply and waits for the mutex
C31_Witness ==
    /\ ~PartsLockFree
    /\ reductions # <<>>
    /\ Head(reductions).type = "FilePartInit"
    /\ tracker_keys # EmptyMap

----------------------------------------------------------------------------
(* Properties of the flush test of Index::merge *)

\* every container in the index holds fewer bytes than flush_size
StoredBelowFlushSize ==
    \A key \in StoredKeys :
        /\ Stored(key).buffered_size < options.key_flush_size
        /\ Stored(key).buffered_size = TotalLen(Stored(key).values)

\* the container the last merge built for key had reached flush_size
ReachedFlushSize(key) ==
    last_merge[key].merged.buffered_size >= options.key_flush_size

\* a merged container that had reached flush_size went to a part file before
\* it was stored: its values are the last line of its last part and the
\* stored container holds none; a smaller one is stored as it was merged
FlushedBeforeStored ==
    \A key \in DOMAIN last_merge :
        LET merged == last_merge[key].merged
            stored == Stored(key)
        IN  IF ReachedFlushSize(key)
            THEN /\ stored.values = <<>>
                 /\ stored.buffered_size = 0
                 /\ stored.total_parts >= 1
                 /\ IsSuffix(to_json_line(merged.values),
                             files[PartPath(stored, stored.last_part_sequence)])
            ELSE /\ stored.values = merged.values
                 /\ stored.buffered_size = merged.buffered_size
                 /\ stored.total_parts = merged.total_parts
                 /\ stored.lines_per_part = merged.lines_per_part

\* C32: after every successful Index::merge each container written to the
\* index has buffered_size < flush_size: a merged container whose
\* buffered_size is >= flush_size is flushed to a part file (values
\* emptied, buffered_size 0) before it is stored
C32_StoredBelowFlushSize == StoredBelowFlushSize /\ FlushedBeforeStored

\* a merge met a stored key with exactly flush_size bytes in memory and
\* flushed them, while another stored container keeps values in memory
C32_Witness ==
    /\ \E key \in DOMAIN last_merge :
          /\ last_merge[key].existed
          /\ last_merge[key].merged.buffered_size = options.key_flush_size
          /\ Stored(key).buffered_size = 0
    /\ \E key \in StoredKeys :
          Stored(key).values # <<>> /\ Stored(key).buffered_size >= 1

----------------------------------------------------------------------------
(* Properties of part_file_path *)

\* the part numbers asked of a container: its parts and the two after them
PartsAsked(c) == 0..(c.total_parts + 1)

PathFails(c, part) == part_file_path(c, part) = PathError

\* lines_per_part.get(part) is None: part_line_count returns its error
CountFails(c, part) == part + 1 \notin DOMAIN c.lines_per_part

FailsAboveLastSequence ==
    \A c \in AllContainers : \A part \in PartsAsked(c) :
        /\ PathFails(c, part) <=> part > c.last_part_sequence
        /\ ~PathFails(c, part) => part_file_path(c, part) = PartPath(c, part)

\* for a container that has been flushed the parts that fail are the parts
\* that do not exist, and every part that exists has its path, its file and
\* its line count
FlushedFailsOnMissingParts ==
    \A c \in AllContainers : \A part \in PartsAsked(c) :
        c.total_parts >= 1 =>
            /\ PathFails(c, part) <=> part >= c.total_parts
            /\ part < c.total_parts =>
                  /\ part_file_path(c, part) \in DOMAIN files
                  /\ ~CountFails(c, part)
                  /\ part_line_count(c, part) >= 1

\* for a container that has never been flushed part 0 has a path, the one
\* its first flush creates, though part_line_count knows no part 0
NeverFlushedHasPathZero ==
    \A c \in AllContainers :
        c.total_parts = 0 =>
            /\ c.last_part_sequence = 0
            /\ part_file_path(c, 0) = PartPath(c, 0)
            /\ CountFails(c, 0)
            /\ PathFails(c, 1)

====
